---- MODULE Spec2Model ----
(***************************************************************************)
(* A model of the type engine, the gather pass and the checker of the      *)
(* bell front end (src/lang/src/core/types.rs, middle_end/gather.rs,       *)
(* middle_end/check.rs).                                                   *)
(*                                                                         *)
(* Conventions.  TypeId and ScopeId are the 0-based indices of the source; *)
(* the flat vectors are TLA+ sequences, so slot t is types[t + 1].  A      *)
(* HashMap<Name, TypeId> is a sequence of [name, ty] records with distinct *)
(* names; the order of the sequence is the map's iteration order, which    *)
(* the source does not fix, so every order is drawn where a map is built.  *)
(* Spans do not influence any decision of the modelled code and are left   *)
(* out of the slots.                                                       *)
(***************************************************************************)
EXTENDS Integers, Sequences, FiniteSets, TLC

VARIABLES root_module, hash_order, scopes, engine, constraints, errors, unresolved, status, last, pc

vars == <<root_module, hash_order, scopes, engine, constraints, errors, unresolved, status, last, pc>>

-----------------------------------------------------------------------------
(* Bounds of the model.                                                    *)

\* the largest number of type slots the engine-level specification creates
MaxTypes == 2

\* the engine-level specification stops unifying once this many mismatches exist
MaxMismatches == 2

\* the depth of nested calls after which the call stack is exhausted
StackDepth == 12

\* field names drawn for Structure maps and constraints
Names == {"x", "y"}

\* link reasons drawn for the unify calls of the engine-level specification
InputReasons == {"Assign"}

-----------------------------------------------------------------------------
(* TypeInfo (types.rs:12-31).                                              *)

Unknown(reported) == [kind |-> "Unknown", reported |-> reported]

Reference(id) == [kind |-> "Reference", id |-> id]

Link(linked_to, reason) == [kind |-> "Link", linked_to |-> linked_to, reason |-> reason]

Unit == [kind |-> "Unit"]

Integer == [kind |-> "Integer"]

Boolean == [kind |-> "Boolean"]

String == [kind |-> "String"]

Structure(fields) == [kind |-> "Structure", fields |-> fields]

Instance(id) == [kind |-> "Instance", id |-> id]

Function(parameters, return_type) == [kind |-> "Function", parameters |-> parameters, return_type |-> return_type]

Mismatch(a, b, reason) == [a |-> a, b |-> b, reason |-> reason]

UnifyCtx(reason, a, b) == [reason |-> reason, a |-> a, b |-> b]

\* HashMap::get on a map kept as a sequence of [name, ty]: the index of the
\* entry for name, or 0 when the map has none
FieldIndex(fields, name) == IF \E i \in 1..Len(fields) : fields[i].name = name THEN CHOOSE i \in 1..Len(fields) : fields[i].name = name ELSE 0

-----------------------------------------------------------------------------
(* Engine (types.rs:76-184).  `aborted` records that a call ran out of     *)
(* stack: the process is gone and nothing after it runs.                   *)

EngineNew == [types |-> <<>>, mismatches |-> <<>>, aborted |-> FALSE]

Get(eng, type_id) == eng.types[type_id + 1]

insert_type(eng, data_type) == [eng EXCEPT !.types = Append(@, data_type)]

\* the id insert_type returns for the slot it pushes
NextId(eng) == Len(eng.types)

SetInfo(eng, type_id, info) == [eng EXCEPT !.types[type_id + 1] = info]

\* PushMismatch as it would be if a mismatching slot were also marked as reported
PushMismatchMarking(eng, context) == [eng EXCEPT !.mismatches = Append(@, Mismatch(context.a, context.b, context.reason)), !.types[context.a + 1] = Unknown(TRUE)]

PushMismatch(eng, context) == [eng EXCEPT !.mismatches = Append(@, Mismatch(context.a, context.b, context.reason))]

\* what a call that exhausts the stack yields in place of a value
Overflow == [kind |-> "Overflow"]

RECURSIVE RemoveRefFrom(_, _, _)
\* remove_ref: follow links to the first slot content that is not a Link;
\* [kind |-> "Overflow"] when the chain does not end within the stack
RemoveRefFrom(eng, type_info, depth) ==
    IF type_info.kind # "Link" THEN type_info
    ELSE IF depth > StackDepth THEN Overflow
    ELSE RemoveRefFrom(eng, Get(eng, type_info.linked_to), depth + 1)

remove_ref(eng, type_info) == RemoveRefFrom(eng, type_info, 0)

RECURSIVE unify_with_context(_, _, _, _, _)
RECURSIVE UnifyFields(_, _, _, _, _, _)
RECURSIVE UnifyParameters(_, _, _, _, _)

\* Engine::unify called at stack depth `depth`
UnifyAt(eng, a, b, reason, depth) == unify_with_context(eng, a, b, UnifyCtx(reason, a, b), depth)

\* the Structure arm: the loop over fields_a from entry i on
UnifyFields(eng, fields_a, fields_b, i, context, depth) ==
    IF eng.aborted \/ i > Len(fields_a) THEN eng
    ELSE LET j == FieldIndex(fields_b, fields_a[i].name)
         IN  IF j = 0 THEN PushMismatch(eng, context)
             ELSE UnifyFields(UnifyAt(eng, fields_a[i].ty, fields_b[j].ty, "Field", depth + 1), fields_a, fields_b, i + 1, context, depth)

\* the Function arm: the loop over the zipped parameters from entry i on
UnifyParameters(eng, a_parameters, b_parameters, i, depth) ==
    IF eng.aborted \/ i > Len(a_parameters) THEN eng
    ELSE UnifyParameters(UnifyAt(eng, a_parameters[i], b_parameters[i], "Parameter", depth + 1), a_parameters, b_parameters, i + 1, depth)

unify_with_context(eng, a, b, context, depth) ==
    IF eng.aborted THEN eng
    ELSE IF depth > StackDepth THEN [eng EXCEPT !.aborted = TRUE]
    ELSE LET ta == Get(eng, a)
             tb == Get(eng, b)
         IN  IF ta.kind = "Unknown" THEN SetInfo(eng, a, Link(b, context.reason))
             ELSE IF tb.kind = "Unknown" THEN SetInfo(eng, b, Link(a, context.reason))
             ELSE IF ta.kind = "Link" THEN unify_with_context(eng, ta.linked_to, b, context, depth + 1)
             ELSE IF tb.kind = "Link" THEN unify_with_context(eng, a, tb.linked_to, context, depth + 1)
             ELSE IF ta.kind = "Integer" /\ tb.kind = "Integer" THEN eng
             ELSE IF ta.kind = "Boolean" /\ tb.kind = "Boolean" THEN eng
             ELSE IF ta.kind = "String" /\ tb.kind = "String" THEN eng
             ELSE IF ta.kind = "Reference" /\ tb.kind = "Reference" THEN unify_with_context(eng, ta.id, tb.id, context, depth + 1)
             ELSE IF ta.kind = "Instance" /\ tb.kind = "Instance" /\ ta.id = tb.id THEN eng
             ELSE IF ta.kind = "Structure" /\ tb.kind = "Structure" THEN UnifyFields(eng, ta.fields, tb.fields, 1, context, depth)
             ELSE IF ta.kind = "Function" /\ tb.kind = "Function" /\ Len(ta.parameters) = Len(tb.parameters)
                  THEN UnifyAt(UnifyParameters(eng, ta.parameters, tb.parameters, 1, depth), ta.return_type, tb.return_type, "Return", depth + 1)
             ELSE PushMismatch(eng, context)

unify(eng, a, b, reason) == UnifyAt(eng, a, b, reason, 0)

-----------------------------------------------------------------------------
(* The engine-level specification: any sequence of insert_type and unify   *)
(* calls, as any caller of the public Engine API may issue them.           *)

TypeIds(eng) == 0..(Len(eng.types) - 1)

\* the orders in which a map with the given keys may iterate
Orders(S) == {s \in [1..Cardinality(S) -> S] : \A i, j \in 1..Cardinality(S) : i # j => s[i] # s[j]}

\* the Structure infos over the existing slots: every key set, every
\* assignment of slots to the keys, every iteration order
StructureInputs(ids) == {Structure([i \in 1..Len(o) |-> [name |-> o[i], ty |-> f[o[i]]]]) : o \in UNION {Orders(S) : S \in SUBSET Names}, f \in [Names -> ids]}

\* the TypeInfo values a caller can pass to insert_type when ids exist
InfoInputs(ids) ==
    {Unknown(FALSE), Unit, Integer, Boolean, String}
    \cup {Link(t, "Other") : t \in ids}
    \cup {Instance(t) : t \in ids}
    \cup {Function(<<>>, t) : t \in ids}
    \cup {Function(<<p>>, t) : p \in ids, t \in ids}
    \cup (IF ids = {} THEN {Structure(<<>>)} ELSE StructureInputs(ids))

NoOp == [op |-> "none"]

\* the variables only the pipeline uses
NoPipeline == <<root_module, hash_order, scopes, constraints, errors, unresolved, status, pc>>

InitEngine ==
    /\ root_module = NoOp
    /\ hash_order = <<>>
    /\ scopes = NoOp
    /\ engine = EngineNew
    /\ constraints = <<>>
    /\ errors = <<>>
    /\ unresolved = <<>>
    /\ status = "ok"
    /\ last = NoOp
    /\ pc = "engine"

InsertType ==
    /\ pc = "engine"
    /\ ~engine.aborted
    /\ Len(engine.types) < MaxTypes
    /\ \E info \in InfoInputs(TypeIds(engine)) :
          /\ engine' = insert_type(engine, info)
          /\ last' = [op |-> "insert_type", pre |-> engine]
    /\ UNCHANGED NoPipeline

Unify ==
    /\ pc = "engine"
    /\ ~engine.aborted
    /\ Len(engine.mismatches) < MaxMismatches
    /\ \E a \in TypeIds(engine), b \in TypeIds(engine), reason \in InputReasons :
          /\ engine' = unify(engine, a, b, reason)
          /\ last' = [op |-> "unify", a |-> a, b |-> b, reason |-> reason, pre |-> engine]
    /\ UNCHANGED NoPipeline

NextEngine == InsertType \/ Unify

SpecEngine == InitEngine /\ [][NextEngine]_vars

\* engines a caller reaches with four insert_type calls: two slots of simple
\* types and two Structure slots whose fields are among the first two
StructureEngines ==
    {[EngineNew EXCEPT !.types = <<first, second, left, right>>] :
         first \in {Unknown(FALSE), Integer, Boolean}, second \in {Unknown(FALSE), Integer, Boolean},
         left \in StructureInputs({0, 1}), right \in StructureInputs({0, 1})}

InitStructures ==
    /\ root_module = NoOp
    /\ hash_order = <<>>
    /\ scopes = NoOp
    /\ engine \in StructureEngines
    /\ constraints = <<>>
    /\ errors = <<>>
    /\ unresolved = <<>>
    /\ status = "ok"
    /\ last = NoOp
    /\ pc = "structures"

\* engine.unify(a, b, reason) on the two Structure slots
UnifyStructures ==
    /\ pc = "structures"
    /\ \E reason \in InputReasons :
          /\ engine' = unify(engine, 2, 3, reason)
          /\ last' = [op |-> "unify", a |-> 2, b |-> 3, reason |-> reason, pre |-> engine]
    /\ pc' = "unified"
    /\ UNCHANGED <<root_module, hash_order, scopes, constraints, errors, unresolved, status>>

NextStructures == UnifyStructures

SpecStructures == InitStructures /\ [][NextStructures]_vars

-----------------------------------------------------------------------------
(* Scopes (types.rs:310-631).  A Variable is [type_id, shadowable]; an     *)
(* Option is [some |-> FALSE] or [some |-> TRUE, value |-> v].             *)

None == [some |-> FALSE]

Some(v) == [some |-> TRUE, value |-> v]

NoConnection == [kind |-> "None"]

Inclusive(scope_id) == [kind |-> "Inclusive", id |-> scope_id]

Exclusive(scope_id) == [kind |-> "Exclusive", id |-> scope_id]

Variable(type_id, shadowable) == [type_id |-> type_id, shadowable |-> shadowable]

ScopeNew(connection) == [modules |-> <<>>, variables |-> <<>>, connection |-> connection]

\* some entry of the list bears the name
Holds(entries, name) == \E i \in 1..Len(entries) : entries[i].name = name

\* the search as it would be without `.rev()`: the first entry pushed for the name
FirstEntry(entries, name) ==
    IF \E i \in 1..Len(entries) : entries[i].name = name
    THEN Some(entries[CHOOSE i \in 1..Len(entries) : entries[i].name = name /\ \A j \in 1..(i - 1) : entries[j].name # name])
    ELSE None

\* Scope::search_variable / Scope::search_module: the last entry pushed for the name
LastEntry(entries, name) ==
    IF \E i \in 1..Len(entries) : entries[i].name = name
    THEN Some(entries[CHOOSE i \in 1..Len(entries) : entries[i].name = name /\ \A j \in (i + 1)..Len(entries) : entries[j].name # name])
    ELSE None

RECURSIVE SearchVariableAcross(_, _, _)
\* the search as it would be if it followed every connection, as search_module does
SearchVariableAcross(raw, name, starting_scope) ==
    LET scope == raw[starting_scope + 1]
        found == LastEntry(scope.variables, name)
    IN  IF found.some THEN Some(found.value.variable)
        ELSE IF scope.connection.kind = "None" THEN None
        ELSE SearchVariableAcross(raw, name, scope.connection.id)

RECURSIVE search_variable(_, _, _)
\* RawScopes::search_variable: the scope, then its Inclusive ancestors
search_variable(raw, name, starting_scope) ==
    LET scope == raw[starting_scope + 1]
        found == LastEntry(scope.variables, name)
    IN  IF found.some THEN Some(found.value.variable)
        ELSE IF scope.connection.kind = "Inclusive" THEN search_variable(raw, name, scope.connection.id)
        ELSE None

RECURSIVE search_module(_, _, _)
\* RawScopes::search_module: the scope, then every ancestor
search_module(raw, name, starting_scope) ==
    LET scope == raw[starting_scope + 1]
        found == LastEntry(scope.modules, name)
    IN  IF found.some THEN Some(found.value.scope)
        ELSE IF scope.connection.kind = "None" THEN None
        ELSE search_module(raw, name, scope.connection.id)

search_local_module(raw, name, starting_scope) ==
    LET scope == raw[starting_scope + 1]
        found == LastEntry(scope.modules, name)
    IN  IF found.some THEN Some(found.value.scope)
        ELSE IF scope.connection.kind = "Inclusive" THEN search_module(raw, name, scope.connection.id)
        ELSE None

does_already_exist(raw, name, starting_scope) ==
    search_variable(raw, name, starting_scope).some \/ search_local_module(raw, name, starting_scope).some

RECURSIVE OriginFrom(_, _, _, _)
\* the loop of get_id_origin_module over the non-tail parts of the id from part i on
OriginFrom(raw, id, i, current_module) ==
    IF i >= Len(id) THEN Some(current_module)
    ELSE LET next == search_module(raw, id[i], current_module)
         IN  IF next.some THEN OriginFrom(raw, id, i + 1, next.value) ELSE None

get_id_origin_module(raw, id, current_module) == OriginFrom(raw, id, 1, current_module)

\* RawScopes::search_id: an Id is a non-empty sequence of names
search_id(raw, id, current_module) ==
    LET origin == get_id_origin_module(raw, id, current_module)
    IN  IF origin.some THEN search_variable(raw, id[Len(id)], origin.value) ELSE None

PushVariable(raw, scope_id, name, variable) == [raw EXCEPT ![scope_id + 1].variables = Append(@, [name |-> name, variable |-> variable])]

PushModule(raw, scope_id, name, module_scope) == [raw EXCEPT ![scope_id + 1].modules = Append(@, [name |-> name, scope |-> module_scope])]

-----------------------------------------------------------------------------
(* HIR (hir.rs:13-122) and ast::Type / TypeHint (ast.rs:48-60).            *)

TInteger == [t |-> "Integer"]

TBoolean == [t |-> "Boolean"]

TString == [t |-> "String"]

TStructure(id) == [t |-> "Structure", id |-> id]

TReference(data_type) == [t |-> "Reference", inner |-> data_type]

TypeHint(name, type_hint) == [name |-> name, type_hint |-> type_hint]

HirFunction(name, type_hint, parameters, body) == [name |-> name, type_hint |-> type_hint, parameters |-> parameters, body |-> body]

HirStructure(name, fields) == [name |-> name, fields |-> fields]

EUnit == [kind |-> "Unit"]

EInt == [kind |-> "Int"]

EBoolean == [kind |-> "Boolean"]

EString == [kind |-> "String"]

EId(id) == [kind |-> "Id", id |-> id]

EFunction(function) == [kind |-> "Function", function |-> function]

EInstance(object, fields) == [kind |-> "Instance", object |-> object, fields |-> fields]

ECall(function, parameters) == [kind |-> "Call", function |-> function, parameters |-> parameters]

EDeclaration(name, type_hint, value) == [kind |-> "Declaration", name |-> name, type_hint |-> type_hint, value |-> value]

AssignVariable(id) == [kind |-> "Variable", id |-> id]

AssignField(instance, field) == [kind |-> "Field", instance |-> instance, field |-> field]

EAssignment(to, from) == [kind |-> "Assignment", to |-> to, from |-> from]

EAccess(from, id) == [kind |-> "Access", from |-> from, id |-> id]

EBlock(expressions, tail) == [kind |-> "Block", expressions |-> expressions, tail |-> tail]

EStructure(structure) == [kind |-> "Structure", structure |-> structure]

EConditional(condition, success, failure) == [kind |-> "Conditional", condition |-> condition, success |-> success, failure |-> failure]

EBreak(expression) == [kind |-> "Break", expression |-> expression]

EReturn(expression) == [kind |-> "Return", expression |-> expression]

EContinue == [kind |-> "Continue"]

ELoop(body) == [kind |-> "Loop", body |-> body]

EUse == [kind |-> "Use"]

EError == [kind |-> "Error"]

TopFunction(function) == [kind |-> "Function", function |-> function]

TopStructure(structure) == [kind |-> "Structure", structure |-> structure]

TopImport(id) == [kind |-> "Import", id |-> id]

\* a Module is [kind, name, program, modules]; the variant decides which of the last two is read
Program(name, program) == [kind |-> "Program", name |-> name, program |-> program, modules |-> <<>>]

Submodule(name, modules) == [kind |-> "Submodule", name |-> name, program |-> <<>>, modules |-> modules]

-----------------------------------------------------------------------------
(* Diagnostics (error.rs).                                                 *)

MissingId(id) == [kind |-> "MissingId", id |-> id]

ConflictingIds(id) == [kind |-> "ConflictingIds", id |-> id]

InvalidFlow(construct) == [kind |-> "InvalidFlow", construct |-> construct]

MissingField(structure, field_name) == [kind |-> "MissingField", structure |-> structure, field_name |-> field_name]

TypeMismatch(a, b, reason) == [kind |-> "TypeMismatch", a |-> a, b |-> b, reason |-> reason]

-----------------------------------------------------------------------------
(* The gather pass (gather.rs).  A Gatherer is [raw, current, engine,      *)
(* errors, status]; status "panic" is an unwrap of None, an index out of   *)
(* range or a todo!(): the pass stops there.                               *)

GathererNew == [raw |-> <<ScopeNew(NoConnection)>>, current |-> 0, engine |-> EngineNew, errors |-> <<>>, status |-> "ok"]

Panic(st) == [st EXCEPT !.status = "panic"]

InsertError(st, error) == [st EXCEPT !.errors = Append(@, error)]

\* history: the construct (a module, a function or a block) the scope just
\* created was created for; entry i is that of scope i
Creates(g, construct) == [g EXCEPT !.created = Append(@, construct)]

\* history: the construct the checker entered its latest scope for; entry i
\* is that of the i-th enter_scope, which makes scope i the current one
Enters(c, construct) == IF c.status # "ok" THEN c ELSE [c EXCEPT !.entered = Append(@, construct)]

\* Scopes::create_scope
create_scope(g, connection) == [g EXCEPT !.raw = Append(@, ScopeNew(connection)), !.current = Len(g.raw)]

\* Scopes::enter_scope, which gather.rs calls for a function and for a block
\* alike and types.rs does not define: a nested scope that lookups pass through
GatherEnterScope(g) == create_scope(g, Inclusive(g.current))

\* Scopes::exit_current_scope
exit_current_scope(g) ==
    IF g.status # "ok" THEN g
    ELSE IF g.raw[g.current + 1].connection.kind = "None" THEN Panic(g)
    ELSE [g EXCEPT !.current = g.raw[g.current + 1].connection.id]

\* a fresh Unknown(true) slot bound to the name, not shadowable (gather.rs:158-164, 170-176)
Predeclare(g, name) ==
    [g EXCEPT !.engine = insert_type(g.engine, Unknown(TRUE)),
              !.raw = PushVariable(g.raw, g.current, name, Variable(NextId(g.engine), FALSE))]

RECURSIVE gather_expression(_, _)
RECURSIVE GatherExpressions(_, _, _)

\* gather_expression over the entries of a list from entry i on
GatherExpressions(g, expressions, i) ==
    IF g.status # "ok" \/ i > Len(expressions) THEN g
    ELSE GatherExpressions(gather_expression(g, expressions[i]), expressions, i + 1)

gather_function(g, function) ==
    IF g.status # "ok" THEN g
    ELSE exit_current_scope(gather_expression(Creates(GatherEnterScope(Predeclare(g, function.name)), function), function.body))

gather_structure(g, structure) ==
    IF g.status # "ok" THEN g
    ELSE IF does_already_exist(g.raw, structure.name, g.current) THEN Panic(g)
    ELSE Predeclare(g, structure.name)

gather_expression(g, expression) ==
    IF g.status # "ok" THEN g
    ELSE CASE expression.kind = "Function" -> gather_function(g, expression.function)
           [] expression.kind = "Instance" -> GatherExpressions(g, [i \in 1..Len(expression.fields) |-> expression.fields[i].value], 1)
           [] expression.kind = "Call" -> GatherExpressions(gather_expression(g, expression.function), expression.parameters, 1)
           [] expression.kind = "Declaration" -> gather_expression(g, expression.value)
           [] expression.kind = "Assignment" ->
                gather_expression(IF expression.to.kind = "Field" THEN gather_expression(g, expression.to.instance) ELSE g, expression.from)
           [] expression.kind = "Access" -> gather_expression(g, expression.from)
           [] expression.kind = "Block" ->
                exit_current_scope(gather_expression(GatherExpressions(Creates(GatherEnterScope(g), expression), expression.expressions, 1), expression.tail))
           [] expression.kind = "Conditional" ->
                gather_expression(gather_expression(gather_expression(g, expression.condition), expression.success), expression.failure)
           [] expression.kind \in {"Break", "Return"} -> gather_expression(g, expression.expression)
           [] expression.kind = "Loop" -> gather_expression(g, expression.body)
           [] OTHER -> g

gather_import(g, id) ==
    IF g.status # "ok" THEN g
    ELSE LET origin == get_id_origin_module(g.raw, id, g.current)
             id_tail == id[Len(id)]
         IN  IF ~origin.some THEN InsertError(g, MissingId(id))
             ELSE LET module == search_module(g.raw, id_tail, origin.value)
                      variable == search_variable(g.raw, id_tail, origin.value)
                  IN  IF module.some THEN [g EXCEPT !.raw = PushModule(g.raw, g.current, id_tail, module.value)]
                      ELSE IF variable.some
                      THEN [g EXCEPT !.engine = insert_type(g.engine, Link(variable.value.type_id, "Other")),
                                     !.raw = PushVariable(g.raw, g.current, id_tail, Variable(NextId(g.engine), FALSE))]
                      ELSE InsertError(g, MissingId(id))

gather_top_level(g, top_level) ==
    CASE top_level.kind = "Function" -> gather_function(g, top_level.function)
      [] top_level.kind = "Structure" -> gather_structure(g, top_level.structure)
      [] top_level.kind = "Import" -> gather_import(g, top_level.id)

RECURSIVE GatherProgramFrom(_, _, _)
GatherProgramFrom(g, program, i) ==
    IF g.status # "ok" \/ i > Len(program) THEN g
    ELSE GatherProgramFrom(gather_top_level(g, program[i]), program, i + 1)

gather_program(g, program) == GatherProgramFrom(g, program, 1)

RECURSIVE insert_hir_module(_, _)
RECURSIVE InsertHirModules(_, _, _)

InsertHirModules(g, modules, i) ==
    IF g.status # "ok" \/ i > Len(modules) THEN g
    ELSE InsertHirModules(insert_hir_module(g, modules[i]), modules, i + 1)

\* the first gather phase: one Exclusive scope per module, bound in its parent
insert_hir_module(g, module) ==
    IF g.status # "ok" THEN g
    ELSE LET module_scope == Len(g.raw)
             entered == Creates(create_scope(g, Exclusive(g.current)), module)
             filled == IF module.kind = "Program" THEN gather_program(entered, module.program)
                       ELSE InsertHirModules(entered, module.modules, 1)
             left == exit_current_scope(filled)
         IN  IF left.status # "ok" THEN left
             ELSE [left EXCEPT !.raw = PushModule(left.raw, left.current, module.name, module_scope)]

RECURSIVE gather_module(_, _)
RECURSIVE GatherModules(_, _, _)

GatherModules(g, modules, i) ==
    IF g.status # "ok" \/ i > Len(modules) THEN g
    ELSE GatherModules(gather_module(g, modules[i]), modules, i + 1)

\* the second gather phase: populate each program's module scope
gather_module(g, module) ==
    IF g.status # "ok" THEN g
    ELSE IF module.kind = "Program"
    THEN LET previous_scope == g.current
             found == search_module(g.raw, module.name, g.current)
         IN  IF ~found.some THEN Panic(g)
             ELSE LET done == gather_program([g EXCEPT !.current = found.value], module.program)
                  IN  IF done.status # "ok" THEN done ELSE [done EXCEPT !.current = previous_scope]
    ELSE GatherModules(g, module.modules, 1)

-----------------------------------------------------------------------------
(* Checker::into_concrete_ty (check.rs:466-495): the type a slot stands    *)
(* for once links are followed.  A Structure is compared as a map, so its  *)
(* fields are a set of <<name, type>> pairs; an Instance is named by the   *)
(* slot of its structure.                                                  *)

RECURSIVE IntoConcreteAt(_, _, _)
RECURSIVE ConcreteFields(_, _, _, _, _)
RECURSIVE ConcreteParameters(_, _, _, _, _)

\* the fields of a Structure from entry i on, added to acc; Overflow as soon
\* as one of them exhausts the stack
ConcreteFields(eng, fields, i, acc, depth) ==
    IF i > Len(fields) THEN [kind |-> "Structure", fields |-> acc]
    ELSE LET t == IntoConcreteAt(eng, fields[i].ty, depth + 1)
         IN  IF t.kind = "Overflow" THEN Overflow
             ELSE ConcreteFields(eng, fields, i + 1, acc \cup {<<fields[i].name, t>>}, depth)

\* the parameters of a Function from entry i on, appended to acc
ConcreteParameters(eng, parameters, i, acc, depth) ==
    IF i > Len(parameters) THEN [kind |-> "Parameters", list |-> acc]
    ELSE LET t == IntoConcreteAt(eng, parameters[i], depth + 1)
         IN  IF t.kind = "Overflow" THEN Overflow
             ELSE ConcreteParameters(eng, parameters, i + 1, Append(acc, t), depth)

IntoConcreteAt(eng, type_id, depth) ==
    IF depth > StackDepth THEN Overflow
    ELSE LET info == remove_ref(eng, Get(eng, type_id))
         IN  CASE info.kind = "Unknown" -> [kind |-> "Unknown"]
               [] info.kind = "Reference" ->
                    LET t == IntoConcreteAt(eng, info.id, depth + 1)
                    IN  IF t.kind = "Overflow" THEN Overflow ELSE [kind |-> "Reference", inner |-> t]
               [] info.kind = "Structure" -> ConcreteFields(eng, info.fields, 1, {}, depth)
               [] info.kind = "Function" ->
                    LET ps == ConcreteParameters(eng, info.parameters, 1, <<>>, depth)
                    IN  IF ps.kind = "Overflow" THEN Overflow
                        ELSE LET r == IntoConcreteAt(eng, info.return_type, depth + 1)
                             IN  IF r.kind = "Overflow" THEN Overflow
                                 ELSE [kind |-> "Function", parameters |-> ps.list, return_type |-> r]
               [] OTHER -> info

into_concrete_ty(eng, type_id) == IntoConcreteAt(eng, type_id, 0)

-----------------------------------------------------------------------------
(* The checker (check.rs).  A Checker is [engine, constraints, raw,        *)
(* current, scope_inc, errors, status, hash_order, ret, unresolved]:       *)
(* raw/current/scope_inc are its StaticScopes, ret is the TypeId the last   *)
(* check_* call returned, hash_order is the iteration order of the maps    *)
(* built in this run, and unresolved is a log of the identifier            *)
(* occurrences that no scope resolved (the id, the slot created for it,    *)
(* the number of slots before it and what the slot held).  status          *)
(* "overflow" is a call that exhausted the stack.                          *)

CheckerNew(raw, eng, errs, order) ==
    [engine |-> eng, constraints |-> <<>>, raw |-> raw, current |-> 0, scope_inc |-> 0, errors |-> errs,
     status |-> "ok", hash_order |-> order, ret |-> 0, unresolved |-> <<>>, created |-> <<>>, entered |-> <<>>]

\* `let name = value;` followed by the rest of the function body
Then(value, Rest(_)) == Rest(value)

\* the checker with type_id as the value of the expression
WithRet(c, type_id) == [c EXCEPT !.ret = type_id]

\* engine.insert_type, the new id kept as the value of the expression
Insert(c, info) ==
    IF c.status # "ok" THEN c
    ELSE [c EXCEPT !.engine = insert_type(c.engine, info), !.ret = NextId(c.engine)]

\* engine.unify from the checker
CheckerUnify(c, a, b, reason) ==
    IF c.status # "ok" THEN c
    ELSE LET e == unify(c.engine, a, b, reason)
         IN  [c EXCEPT !.engine = e, !.status = IF e.aborted THEN "overflow" ELSE "ok"]

\* StaticScopes::enter_scope; a scope the gather pass never created is an
\* index out of range for whatever uses it next
enter_scope(c) ==
    IF c.status # "ok" THEN c
    ELSE IF c.scope_inc + 1 >= Len(c.raw) THEN Panic(c)
    ELSE [c EXCEPT !.scope_inc = c.scope_inc + 1, !.current = c.scope_inc + 1]

\* StaticScopes::exit_scope
exit_scope(c) ==
    IF c.status # "ok" THEN c
    ELSE IF c.raw[c.current + 1].connection.kind = "None" THEN Panic(c)
    ELSE [c EXCEPT !.current = c.raw[c.current + 1].connection.id]

\* StaticScopes::insert_variable
insert_variable(c, name, variable) ==
    IF c.status # "ok" THEN c ELSE [c EXCEPT !.raw = PushVariable(c.raw, c.current, name, variable)]

insert_constraint(c, constraint) ==
    IF c.status # "ok" THEN c ELSE [c EXCEPT !.constraints = Append(@, constraint)]

Constraint(object_id, field_id, field) == [object_id |-> object_id, field_id |-> field_id, field |-> field]

RECURSIVE AstIntoTy(_, _, _)
\* into_ty of an ast::Type (types.rs:37-58)
AstIntoTy(data_type, raw, current) ==
    CASE data_type.t = "Integer" -> Integer
      [] data_type.t = "Boolean" -> Boolean
      [] data_type.t = "String" -> String
      [] data_type.t = "Structure" ->
            LET found == search_id(raw, data_type.id, current)
            IN  IF found.some THEN Instance(found.value.type_id) ELSE Unknown(TRUE)
      [] data_type.t = "Reference" -> AstIntoTy(data_type.inner, raw, current)

\* into_ty of an optional type hint (types.rs:60-65)
into_ty(type_hint, c) ==
    IF type_hint.some THEN AstIntoTy(type_hint.value, c.raw, c.current) ELSE Unknown(FALSE)

\* a HashMap collected from a list of [name, ty] entries: a later entry
\* replaces an earlier one of the same name, and the map iterates in hash order
HashMapOf(entries, order) ==
    LET present == SelectSeq(order, LAMBDA n : \E i \in 1..Len(entries) : entries[i].name = n)
    IN  [k \in 1..Len(present) |-> [name |-> present[k], ty |-> LastEntry(entries, present[k]).value.ty]]

\* what the slot of an unresolved identifier holds
MissingSlotUnit == Unit

MissingSlot == Unknown(TRUE)

\* the else branches of the Id, Instance and Assignment arms: one MissingId
\* and a new slot for the occurrence
Unresolved(c, id) ==
    Then(Insert(InsertError(c, MissingId(id)), MissingSlot), LAMBDA made :
    [made EXCEPT !.unresolved = Append(@, [id |-> id, slot |-> made.ret, slots_before |-> Len(c.engine.types), info |-> Get(made.engine, made.ret)])])

\* ScopeContext (types.rs:633-653)
InFunction(return_type) == [kind |-> "Function", return_type |-> return_type]

InFunctionLoop(function_return, loop_return) == [kind |-> "FunctionLoop", function_return |-> function_return, loop_return |-> loop_return]

get_function_ret_ty(context) == IF context.kind = "Function" THEN context.return_type ELSE context.function_return

RECURSIVE check_expression(_, _, _)
RECURSIVE check_function(_, _)
RECURSIVE CheckInstance(_, _, _, _)
RECURSIVE CheckCall(_, _, _)
RECURSIVE CheckDeclaration(_, _, _)
RECURSIVE AssignToField(_, _, _, _)
RECURSIVE CheckAssignment(_, _, _)
RECURSIVE CheckAccess(_, _, _)
RECURSIVE CheckBlock(_, _, _)
RECURSIVE CheckConditional(_, _, _)
RECURSIVE CheckConditionalSwapped(_, _, _)
RECURSIVE CheckBreak(_, _, _)
RECURSIVE CheckReturn(_, _, _)
RECURSIVE CheckLoop(_, _, _)
RECURSIVE CheckInstanceFields(_, _, _, _, _)
RECURSIVE CheckParameters(_, _, _, _, _)
RECURSIVE CheckExpressions(_, _, _, _)

\* Checker::unify_in_place: the unwrap panics when the name is not in scope
unify_in_place(c, id, type_id) ==
    IF c.status # "ok" THEN c
    ELSE Then(search_id(c.raw, id, c.current), LAMBDA found :
         IF ~found.some THEN Panic(c) ELSE CheckerUnify(c, found.value.type_id, type_id, "Other"))

\* the loop of the Instance arm from field i on: a repeated field name is
\* reported and its value is not checked
CheckInstanceFields(c, fields, i, field_types, context) ==
    IF c.status # "ok" \/ i > Len(fields) THEN [c |-> c, field_types |-> field_types]
    ELSE IF \E k \in 1..Len(field_types) : field_types[k].name = fields[i].name
    THEN CheckInstanceFields(InsertError(c, ConflictingIds(<<fields[i].name>>)), fields, i + 1, field_types, context)
    ELSE Then(check_expression(c, fields[i].value, context), LAMBDA checked :
         CheckInstanceFields(checked, fields, i + 1, Append(field_types, [name |-> fields[i].name, ty |-> checked.ret]), context))

\* the map over the parameters of a call from parameter i on
CheckParameters(c, parameters, i, parameter_types, context) ==
    IF c.status # "ok" \/ i > Len(parameters) THEN [c |-> c, parameter_types |-> parameter_types]
    ELSE Then(check_expression(c, parameters[i], context), LAMBDA checked :
         CheckParameters(checked, parameters, i + 1, Append(parameter_types, checked.ret), context))

\* the loop over the expressions of a block from expression i on
CheckExpressions(c, expressions, i, context) ==
    IF c.status # "ok" \/ i > Len(expressions) THEN c
    ELSE CheckExpressions(check_expression(c, expressions[i], context), expressions, i + 1, context)

RECURSIVE InsertHints(_, _, _, _)
\* one slot per type hint of a list from hint i on, as [name, ty] entries
InsertHints(c, hints, i, entries) ==
    IF c.status # "ok" \/ i > Len(hints) THEN [c |-> c, entries |-> entries]
    ELSE Then(Insert(c, into_ty(hints[i].type_hint, c)), LAMBDA made :
         InsertHints(made, hints, i + 1, Append(entries, [name |-> hints[i].name, ty |-> made.ret])))

RECURSIVE BindParameters(_, _, _, _)
\* the loop of check_function over the parameters from parameter i on
BindParameters(c, parameters, i, ids) ==
    IF c.status # "ok" \/ i > Len(parameters) THEN [c |-> c, ids |-> ids]
    ELSE Then(Insert(c, into_ty(parameters[i].type_hint, c)), LAMBDA made :
         BindParameters(insert_variable(made, parameters[i].name, Variable(made.ret, TRUE)), parameters, i + 1, Append(ids, made.ret)))

check_structure(c, structure) ==
    IF c.status # "ok" THEN c
    ELSE Then(InsertHints(c, structure.fields, 1, <<>>), LAMBDA hinted :
         Then(Insert(hinted.c, Structure(HashMapOf(hinted.entries, c.hash_order))), LAMBDA data_type :
         Insert(unify_in_place(data_type, <<structure.name>>, data_type.ret), Unit)))

check_function(c, function) ==
    IF c.status # "ok" THEN c
    ELSE Then(BindParameters(Enters(enter_scope(c), function), function.parameters, 1, <<>>), LAMBDA bound :
         Then(Insert(bound.c, into_ty(function.type_hint, bound.c)), LAMBDA given_return_type :
         Then(check_expression(given_return_type, function.body, InFunction(given_return_type.ret)), LAMBDA actual_return_type :
         Then(CheckerUnify(actual_return_type, actual_return_type.ret, given_return_type.ret, "Return"), LAMBDA returned :
         Then(Insert(returned, Function(bound.ids, given_return_type.ret)), LAMBDA function_type :
         Insert(unify_in_place(exit_scope(function_type), <<function.name>>, function_type.ret), Unit))))))

\* the Instance arm once the object's symbol is found
CheckInstance(c, expression, context, symbol) ==
    Then(CheckInstanceFields(c, expression.fields, 1, <<>>, context), LAMBDA checked :
    Then(Insert(checked.c, Structure(HashMapOf(checked.field_types, c.hash_order))), LAMBDA given_type :
    Insert(CheckerUnify(given_type, symbol.type_id, given_type.ret, "Structure"), Instance(symbol.type_id))))

CheckCall(c, expression, context) ==
    Then(CheckParameters(c, expression.parameters, 1, <<>>, context), LAMBDA checked :
    Then(Insert(checked.c, Unknown(FALSE)), LAMBDA return_type :
    Then(Insert(return_type, Function(checked.parameter_types, return_type.ret)), LAMBDA expected_type :
    Then(check_expression(expected_type, expression.function, context), LAMBDA found_type :
    WithRet(CheckerUnify(found_type, found_type.ret, expected_type.ret, "Call"), return_type.ret)))))

CheckDeclaration(c, expression, context) ==
    Then(check_expression(c, expression.value, context), LAMBDA expected_type :
    Then(Insert(expected_type, into_ty(expression.type_hint, expected_type)), LAMBDA found_type :
    Then(CheckerUnify(found_type, expected_type.ret, found_type.ret, "Other"), LAMBDA unified :
    Insert(insert_variable(unified, expression.name, Variable(found_type.ret, TRUE)), Unit))))

\* the Variable arm of the match on the assignment's location
AssignToVariable(expected_type, id) ==
    Then(search_id(expected_type.raw, id, expected_type.current), LAMBDA symbol :
    IF symbol.some
    THEN WithRet(CheckerUnify(expected_type, symbol.value.type_id, expected_type.ret, "Assign"), symbol.value.type_id)
    ELSE Unresolved(expected_type, id))

\* the Field arm of the match on the assignment's location
AssignToField(expected_type, instance, field, context) ==
    Then(check_expression(expected_type, instance, context), LAMBDA object_id :
    Then(Insert(object_id, Unknown(FALSE)), LAMBDA field_id :
    insert_constraint(field_id, Constraint(object_id.ret, field_id.ret, field))))

CheckAssignment(c, expression, context) ==
    Then(check_expression(c, expression.from, context), LAMBDA expected_type :
    Then(IF expression.to.kind = "Variable" THEN AssignToVariable(expected_type, expression.to.id)
         ELSE AssignToField(expected_type, expression.to.instance, expression.to.field, context), LAMBDA found_type :
    Insert(CheckerUnify(found_type, found_type.ret, expected_type.ret, "Assign"), Unit)))

CheckAccess(c, expression, context) ==
    Then(check_expression(c, expression.from, context), LAMBDA from :
    Then(Insert(from, Unknown(FALSE)), LAMBDA field_id :
    insert_constraint(field_id, Constraint(from.ret, field_id.ret, expression.id))))

CheckBlock(c, expression, context) ==
    Then(check_expression(CheckExpressions(Enters(enter_scope(c), expression), expression.expressions, 1, context), expression.tail, context), LAMBDA result :
    WithRet(exit_scope(result), result.ret))

\* the Conditional arm as it would be with the failure branch as the left operand
CheckConditionalSwapped(c, expression, context) ==
    Then(Insert(c, Boolean), LAMBDA boolean :
    Then(check_expression(boolean, expression.condition, context), LAMBDA condition :
    Then(check_expression(CheckerUnify(condition, condition.ret, boolean.ret, "Condition"), expression.success, context), LAMBDA success :
    Then(check_expression(success, expression.failure, context), LAMBDA failure :
    WithRet(CheckerUnify(failure, failure.ret, success.ret, "Conditional"), success.ret)))))

CheckConditional(c, expression, context) ==
    Then(Insert(c, Boolean), LAMBDA boolean :
    Then(check_expression(boolean, expression.condition, context), LAMBDA condition :
    Then(check_expression(CheckerUnify(condition, condition.ret, boolean.ret, "Condition"), expression.success, context), LAMBDA success :
    Then(check_expression(success, expression.failure, context), LAMBDA failure :
    WithRet(CheckerUnify(failure, success.ret, failure.ret, "Conditional"), success.ret)))))

CheckBreak(c, expression, context) ==
    Then(Insert(c, Unit), LAMBDA unit :
    IF context.kind = "FunctionLoop"
    THEN Then(check_expression(unit, expression.expression, context), LAMBDA found_ret_ty :
         WithRet(CheckerUnify(found_ret_ty, context.loop_return, found_ret_ty.ret, "Loop"), unit.ret))
    ELSE InsertError(unit, InvalidFlow("break")))

CheckReturn(c, expression, context) ==
    Then(Insert(c, Unit), LAMBDA unit :
    Then(check_expression(unit, expression.expression, context), LAMBDA found_return_ty :
    WithRet(CheckerUnify(found_return_ty, get_function_ret_ty(context), found_return_ty.ret, "Return"), unit.ret)))

CheckLoop(c, expression, context) ==
    Then(Insert(c, Unknown(FALSE)), LAMBDA loop_return :
    check_expression(loop_return, expression.body, InFunctionLoop(get_function_ret_ty(context), loop_return.ret)))

check_expression(c, expression, context) ==
    IF c.status # "ok" THEN c
    ELSE CASE expression.kind = "Unit" -> Insert(c, Unit)
           [] expression.kind = "Int" -> Insert(c, Integer)
           [] expression.kind = "Boolean" -> Insert(c, Boolean)
           [] expression.kind = "String" -> Insert(c, String)
           [] expression.kind = "Id" ->
                Then(search_id(c.raw, expression.id, c.current), LAMBDA symbol :
                IF symbol.some THEN Insert(c, Link(symbol.value.type_id, "Other")) ELSE Unresolved(c, expression.id))
           [] expression.kind = "Function" -> check_function(c, expression.function)
           [] expression.kind = "Instance" ->
                Then(search_id(c.raw, expression.object, c.current), LAMBDA symbol :
                IF symbol.some THEN CheckInstance(c, expression, context, symbol.value) ELSE Unresolved(c, expression.object))
           [] expression.kind = "Call" -> CheckCall(c, expression, context)
           [] expression.kind = "Declaration" -> CheckDeclaration(c, expression, context)
           [] expression.kind = "Assignment" -> CheckAssignment(c, expression, context)
           [] expression.kind = "Access" -> CheckAccess(c, expression, context)
           [] expression.kind = "Block" -> CheckBlock(c, expression, context)
           [] expression.kind = "Structure" -> check_structure(c, expression.structure)
           [] expression.kind = "Conditional" -> CheckConditional(c, expression, context)
           [] expression.kind = "Break" -> CheckBreak(c, expression, context)
           [] expression.kind = "Return" -> CheckReturn(c, expression, context)
           [] expression.kind = "Continue" ->
                Insert(IF context.kind = "Function" THEN InsertError(c, InvalidFlow("continue")) ELSE c, Unit)
           [] expression.kind = "Loop" -> CheckLoop(c, expression, context)
           [] expression.kind = "Error" -> Insert(c, Unknown(TRUE))
           [] expression.kind = "Use" -> Insert(c, Unit)

check_top_level(c, top_level) ==
    CASE top_level.kind = "Function" -> check_function(c, top_level.function)
      [] top_level.kind = "Structure" -> check_structure(c, top_level.structure)
      [] OTHER -> Insert(c, Unit)

RECURSIVE CheckProgramFrom(_, _, _)
CheckProgramFrom(c, program, i) ==
    IF c.status # "ok" \/ i > Len(program) THEN c
    ELSE CheckProgramFrom(check_top_level(c, program[i]), program, i + 1)

check_program(c, program) == CheckProgramFrom(c, program, 1)

RECURSIVE check_module(_, _)
RECURSIVE CheckModules(_, _, _)

CheckModules(c, modules, i) ==
    IF c.status # "ok" \/ i > Len(modules) THEN c
    ELSE CheckModules(check_module(c, modules[i]), modules, i + 1)

check_module(c, module) ==
    IF c.status # "ok" THEN c
    ELSE IF module.kind = "Program" THEN check_program(Enters(enter_scope(c), module), module.program)
    ELSE CheckModules(Enters(enter_scope(c), module), module.modules, 1)

\* the arms of solve_constraint that report a missing field
ReportMissingField(c, constraint) ==
    LET structure == into_concrete_ty(c.engine, constraint.object_id)
    IN  IF structure.kind = "Overflow" THEN [c EXCEPT !.status = "overflow"]
        ELSE InsertError(c, MissingField(structure, constraint.field))

\* Checker::solve_constraint: the checker after the call and the result
solve_constraint(c, constraint) ==
    LET resolved == remove_ref(c.engine, Get(c.engine, constraint.object_id))
    IN  IF resolved.kind = "Overflow" THEN [c |-> [c EXCEPT !.status = "overflow"], result |-> FALSE]
        ELSE IF resolved.kind = "Unknown" THEN [c |-> c, result |-> FALSE]
        ELSE IF resolved.kind = "Instance"
        THEN LET structure == remove_ref(c.engine, Get(c.engine, resolved.id))
                 j == IF structure.kind = "Structure" THEN FieldIndex(structure.fields, constraint.field) ELSE 0
             IN  IF structure.kind = "Overflow" THEN [c |-> [c EXCEPT !.status = "overflow"], result |-> FALSE]
                 ELSE IF j # 0 THEN [c |-> CheckerUnify(c, constraint.field_id, structure.fields[j].ty, "Field"), result |-> TRUE]
                 ELSE [c |-> ReportMissingField(c, constraint), result |-> TRUE]
        ELSE [c |-> ReportMissingField(c, constraint), result |-> TRUE]

RECURSIVE SolvePass(_, _, _, _, _)
\* one pass of the filter over the cloned list from constraint i on
SolvePass(c, list, i, kept, progressed) ==
    IF c.status # "ok" \/ i > Len(list) THEN [c |-> [c EXCEPT !.constraints = kept], progressed |-> progressed]
    ELSE LET solved == solve_constraint(c, list[i])
         IN  SolvePass(solved.c, list, i + 1, IF solved.result THEN kept ELSE Append(kept, list[i]), progressed \/ solved.result)

\* the condition of the do-while loop as it would be if one pass were all
KeepGoingNever(progressed) == FALSE

\* the condition of the do-while loop of solve_constraints
KeepGoing(progressed) == progressed

RECURSIVE solve_constraints(_)
solve_constraints(c) ==
    IF c.status # "ok" THEN c
    ELSE LET pass == SolvePass(c, c.constraints, 1, <<>>, FALSE)
         IN  IF pass.c.status = "ok" /\ KeepGoing(pass.progressed) THEN solve_constraints(pass.c) ELSE pass.c

RECURSIVE CollectTraceFrom(_, _, _, _)
\* the loop of collect_trace at type_id with the reason of the link followed
CollectTraceFrom(eng, type_id, reason, backtrace) ==
    LET concrete == into_concrete_ty(eng, type_id)
        info == Get(eng, type_id)
        extended == Append(backtrace, [reason |-> reason, data_type |-> concrete])
    IN  IF concrete.kind = "Overflow" THEN Overflow
        ELSE IF info.kind = "Link" THEN CollectTraceFrom(eng, info.linked_to, info.reason, extended)
        ELSE [kind |-> "Backtrace", elements |-> extended]

collect_trace(eng, type_id) == CollectTraceFrom(eng, type_id, "Other", <<>>)

RECURSIVE ReportFrom(_, _)
\* the loop of check over engine.mismatches from mismatch i on
ReportFrom(c, i) ==
    IF c.status # "ok" \/ i > Len(c.engine.mismatches) THEN c
    ELSE LET m == c.engine.mismatches[i]
             a == collect_trace(c.engine, m.a)
             b == collect_trace(c.engine, m.b)
         IN  IF a.kind = "Overflow" \/ b.kind = "Overflow" THEN [c EXCEPT !.status = "overflow"]
             ELSE ReportFrom(InsertError(c, TypeMismatch(a.elements, b.elements, m.reason)), i + 1)

report_mismatches(c) == ReportFrom(c, 1)

-----------------------------------------------------------------------------
(* The programs the pipeline is run on, as the HIR the lowering produces   *)
(* for them (hir.rs:205-214: a block whose last expression ends in `;` has *)
(* the tail Unit; hir.rs:219-253: a missing else is an empty block).       *)

\* the longest statement list of a generated function body
MaxStatements == 2

Parameter(name) == TypeHint(name, None)

Field(name, value) == [name |-> name, value |-> value]

EmptyBlock == EBlock(<<>>, EUnit)

\* func main(parameters) { expressions; }
Main(parameters, expressions) == TopFunction(HirFunction("main", None, parameters, EBlock(expressions, EUnit)))

\* struct P { x: Int }
StructP == HirStructure("P", <<TypeHint("x", Some(TInteger))>>)

\* var p = P { x: 1 }; var y: hint = p.x;
UseP(hint) ==
    <<EDeclaration("p", None, EInstance(<<"P">>, <<Field("x", EInt)>>)),
      EDeclaration("y", Some(hint), EAccess(EId(<<"p">>), "x"))>>

\* func main() { x = 0; }
UndeclaredAssign == <<Main(<<>>, <<EAssignment(AssignVariable(<<"x">>), EInt)>>)>>

\* struct P { x: Int } func main() { var p = P { x: 1 }; var y: Int = p.x; }
FieldAccessProgram == <<TopStructure(StructP), Main(<<>>, UseP(TInteger))>>

\* func main(P) { struct P { x: Int }; var p = P { x: 1 }; var y: Int = p.x; }
FieldAccessLocal == <<Main(<<Parameter("P")>>, <<EStructure(StructP)>> \o UseP(TInteger))>>

\* func main(P) { struct P { x: Int }; var p = P { x: 1 }; var y: Bool = p.x; }
FieldAccessWrong == <<Main(<<Parameter("P")>>, <<EStructure(StructP)>> \o UseP(TBoolean))>>

\* func main(P) { P { }; struct P { x: Int }; }
InstanceFirst == <<Main(<<Parameter("P")>>, <<EInstance(<<"P">>, <<>>), EStructure(StructP)>>)>>

\* func main(P) { struct P { x: Int }; P { }; }
StructureFirst == <<Main(<<Parameter("P")>>, <<EStructure(StructP), EInstance(<<"P">>, <<>>)>>)>>

\* func main() { P { }; } struct P { x: Int }
InstanceBeforeTopLevel == <<Main(<<>>, <<EInstance(<<"P">>, <<>>)>>), TopStructure(StructP)>>

\* func main(u) { if true { u } else { u }; u.x; }
CyclicAccess ==
    <<Main(<<Parameter("u")>>,
           <<EConditional(EBoolean, EBlock(<<>>, EId(<<"u">>)), EBlock(<<>>, EId(<<"u">>))), EAccess(EId(<<"u">>), "x")>>)>>

\* func main(A, B, u) { struct B { y: Int }; struct A { x: B };
\*   var a = A { x: B { y: 1 } }; u.y; if true { u } else { a.x }; }
ChainedAccess ==
    <<Main(<<Parameter("A"), Parameter("B"), Parameter("u")>>,
           <<EStructure(HirStructure("B", <<TypeHint("y", Some(TInteger))>>)),
             EStructure(HirStructure("A", <<TypeHint("x", Some(TStructure(<<"B">>)))>>)),
             EDeclaration("a", None, EInstance(<<"A">>, <<Field("x", EInstance(<<"B">>, <<Field("y", EInt)>>))>>)),
             EAccess(EId(<<"u">>), "y"),
             EConditional(EBoolean, EBlock(<<>>, EId(<<"u">>)), EBlock(<<>>, EAccess(EId(<<"a">>), "x")))>>)>>

\* func main(x) { x = x; }
SelfAssign == <<Main(<<Parameter("x")>>, <<EAssignment(AssignVariable(<<"x">>), EId(<<"x">>))>>)>>

\* func main(c) { if c { } }
EmptyThen == <<TopFunction(HirFunction("main", None, <<Parameter("c")>>, EBlock(<<>>, EConditional(EId(<<"c">>), EmptyBlock, EmptyBlock))))>>

\* the literals of the primitive types; Unit is the value of an empty block
PrimitiveLiterals == {EUnit, EInt, EBoolean, EString}

\* func main() { if true { success } else { failure }; }
Branches(success, failure) == <<Main(<<>>, <<EConditional(EBoolean, EBlock(<<>>, success), EBlock(<<>>, failure))>>)>>

\* the conditionals whose two branches are literals of different primitive types
ConditionalPrograms == {Branches(success, failure) : success \in PrimitiveLiterals, failure \in PrimitiveLiterals} \ {Branches(e, e) : e \in PrimitiveLiterals}

\* func main() { var x = loop { break 0; }; }
LoopValue == <<Main(<<>>, <<EDeclaration("x", None, ELoop(EBlock(<<EBreak(EInt)>>, EUnit)))>>)>>

\* func main() { var x: Int = loop { break 0; }; }
LoopValueHinted == <<Main(<<>>, <<EDeclaration("x", Some(TInteger), ELoop(EBlock(<<EBreak(EInt)>>, EUnit)))>>)>>

\* func f() { statement; }
Nested(statement) == EFunction(HirFunction("f", None, <<>>, EBlock(<<statement>>, EUnit)))

\* loop { statement; }
Looping(statement) == ELoop(EBlock(<<statement>>, EUnit))

\* break 0;  continue;  break continue;  if true { break 0; };  and each of
\* them in a loop, in a function in a loop and in a loop in a function in a loop
FlowStatements ==
    LET flow == {EBreak(EInt), EContinue, EBreak(EContinue), EConditional(EBoolean, EBlock(<<EBreak(EInt)>>, EUnit), EmptyBlock)}
    IN  flow \cup {Looping(e) : e \in flow} \cup {Looping(Nested(e)) : e \in flow} \cup {Looping(Nested(Looping(e))) : e \in flow}

\* func main() { var x = first; var x = second; var y = x; }
Shadow(first, second) ==
    <<Main(<<>>, <<EDeclaration("x", None, first), EDeclaration("x", None, second), EDeclaration("y", None, EId(<<"x">>))>>)>>

ShadowPrograms == {Shadow(first, second) : first \in PrimitiveLiterals \ {EUnit}, second \in PrimitiveLiterals \ {EUnit}}

\* func f() { } func f() { }
TwoFunctions == <<TopFunction(HirFunction("f", None, <<>>, EmptyBlock)), TopFunction(HirFunction("f", None, <<>>, EmptyBlock))>>

\* struct P { x: Int } struct P { x: Int }
TwoStructures == <<TopStructure(StructP), TopStructure(StructP)>>

\* func f() { } func g() { }
DistinctFunctions == <<TopFunction(HirFunction("f", None, <<>>, EmptyBlock)), TopFunction(HirFunction("g", None, <<>>, EmptyBlock))>>

\* func f() { f = f; }
FunctionSelfAssign == <<TopFunction(HirFunction("f", None, <<>>, EBlock(<<EAssignment(AssignVariable(<<"f">>), EId(<<"f">>))>>, EUnit)))>>

\* func main() { var x = <value>; x = <rhs>; }
Reassign(value, rhs) == <<Main(<<>>, <<EDeclaration("x", None, value), EAssignment(AssignVariable(<<"x">>), rhs)>>)>>

ReassignPrograms == {Reassign(value, rhs) : value, rhs \in PrimitiveLiterals}

\* func main() { struct P { x: Int }; }
LocalStructure == <<Main(<<>>, <<EStructure(StructP)>>)>>

\* func main() { func g() { }; }
LocalFunction == <<Main(<<>>, <<EFunction(HirFunction("g", None, <<>>, EmptyBlock))>>)>>

\* the blocks { 0 } and { true }
BlockOfInt == EBlock(<<>>, EInt)

BlockOfBoolean == EBlock(<<>>, EBoolean)

\* programs with blocks in the operands of one expression:
\* { 0 }({ true });  { 0 }.x = { true };  P { x: { 0 }, x: { true } }; { 0 };  { 0 }; { true };
ScopePrograms ==
    {<<Main(<<>>, <<ECall(BlockOfInt, <<BlockOfBoolean>>)>>)>>,
     <<Main(<<>>, <<EAssignment(AssignField(BlockOfInt, "x"), BlockOfBoolean)>>)>>,
     <<Main(<<Parameter("P")>>, <<EInstance(<<"P">>, <<Field("x", BlockOfInt), Field("x", BlockOfBoolean)>>), BlockOfInt>>)>>,
     <<Main(<<>>, <<BlockOfInt, BlockOfBoolean>>)>>}

ScenarioPrograms ==
    {UndeclaredAssign, FieldAccessProgram, FieldAccessLocal, FieldAccessWrong, InstanceFirst, StructureFirst,
     InstanceBeforeTopLevel, CyclicAccess, ChainedAccess, SelfAssign, EmptyThen}
    \cup ConditionalPrograms
    \cup {LoopValue, LoopValueHinted}
    \cup ShadowPrograms
    \cup {TwoFunctions, TwoStructures, DistinctFunctions, FunctionSelfAssign, LocalStructure, LocalFunction}
    \cup ScopePrograms
    \cup ReassignPrograms

\* statements in which no identifier resolves when nothing is declared:
\* x = 0;  x;  x.y;  y = x;  x { };
UnresolvedStatements ==
    {EAssignment(AssignVariable(<<"x">>), EInt), EId(<<"x">>), EAccess(EId(<<"x">>), "y"),
     EAssignment(AssignVariable(<<"y">>), EId(<<"x">>)), EInstance(<<"x">>, <<>>)}

\* var x = 0;  var x: Bool = 0;  if true { };  loop { break 0; };  return 0;  continue;  "s".y;
OtherStatements ==
    {EDeclaration("x", None, EInt), EDeclaration("x", Some(TBoolean), EInt), EConditional(EBoolean, EmptyBlock, EmptyBlock),
     ELoop(EBlock(<<EBreak(EInt)>>, EUnit)), EReturn(EInt), EContinue, EAccess(EString, "y")}

RECURSIVE SeqsOfLen(_, _)
SeqsOfLen(S, n) == IF n = 0 THEN {<<>>} ELSE {Append(body, statement) : body \in SeqsOfLen(S, n - 1), statement \in S}

SeqsUpTo(S, n) == UNION {SeqsOfLen(S, k) : k \in 1..n}

\* func main() { statements } over the unresolved statements only
UnresolvedPrograms == {<<Main(<<>>, body)>> : body \in SeqsUpTo(UnresolvedStatements, MaxStatements)}

GeneratedPrograms == {<<Main(<<>>, body)>> : body \in SeqsUpTo(UnresolvedStatements \cup OtherStatements, MaxStatements)}

\* func main() { statements } over the flow statements
FlowPrograms == {<<Main(<<>>, body)>> : body \in SeqsUpTo(FlowStatements, MaxStatements)}

\* A: `use B::f`
ImportingProgram == Program("A", <<TopImport(<<"B", "f">>)>>)

\* B: `func f() { }`
ImportedProgram == Program("B", <<TopFunction(HirFunction("f", None, <<>>, EmptyBlock))>>)

\* a directory whose children are A and then B
ImportFirst == Submodule("lib", <<ImportingProgram, ImportedProgram>>)

\* a directory whose children are B and then A
ImportSecond == Submodule("lib", <<ImportedProgram, ImportingProgram>>)

Modules ==
    {Program("m", program) : program \in ScenarioPrograms \cup GeneratedPrograms \cup FlowPrograms}
    \cup {Submodule("lib", <<Program("m", UndeclaredAssign)>>), ImportFirst, ImportSecond}

-----------------------------------------------------------------------------
(* The pipeline specification: gather (gather.rs:242-252) and then check   *)
(* (check.rs:587-593, 40-53) on one root module.  pc is the step about to  *)
(* run; a step that panics or exhausts the stack leaves pc where it is and *)
(* ends the run.                                                           *)

\* the order of the steps of Checker::check in the earlier revision
\* (bell/lang/src/middle_end/checker.rs:752-784)
CheckStepsEarlier == <<"check", "report", "solve">>

\* the order of the steps of Checker::check
CheckSteps == <<"check", "solve", "report">>

Steps == <<"insert", "gather">> \o CheckSteps \o <<"done">>

StepAfter(step) == Steps[(CHOOSE i \in 1..Len(Steps) : Steps[i] = step) + 1]

\* the gatherer or checker the variables hold
Current ==
    [engine |-> engine, constraints |-> constraints, raw |-> scopes.raw, current |-> scopes.current, scope_inc |-> scopes.scope_inc,
     errors |-> errors, status |-> status, hash_order |-> hash_order, ret |-> 0, unresolved |-> unresolved,
     created |-> scopes.created, entered |-> scopes.entered]

\* the variables after a step that left the gatherer or checker as c
Becomes(c) ==
    /\ engine' = c.engine
    /\ constraints' = c.constraints
    /\ scopes' = [raw |-> c.raw, current |-> c.current, scope_inc |-> c.scope_inc, created |-> c.created, entered |-> c.entered]
    /\ errors' = c.errors
    /\ unresolved' = c.unresolved
    /\ status' = c.status
    /\ pc' = IF c.status = "ok" THEN StepAfter(pc) ELSE pc
    /\ last' = [op |-> pc, pre |-> [engine |-> engine, constraints |-> constraints, errors |-> errors]]
    /\ UNCHANGED <<root_module, hash_order>>

InitCheck ==
    /\ root_module \in Modules
    /\ hash_order \in Orders(Names)
    /\ scopes = [raw |-> GathererNew.raw, current |-> GathererNew.current, scope_inc |-> 0, created |-> <<>>, entered |-> <<>>]
    /\ engine = GathererNew.engine
    /\ constraints = <<>>
    /\ errors = GathererNew.errors
    /\ unresolved = <<>>
    /\ status = GathererNew.status
    /\ last = NoOp
    /\ pc = "insert"

\* gather: gatherer.insert_hir_module(&module)
InsertHirModule ==
    /\ pc = "insert"
    /\ status = "ok"
    /\ Becomes(insert_hir_module(Current, root_module))

\* gather: gatherer.gather_module(&module), and the hand-over of the engine
\* and the scopes to a new Checker
GatherModule ==
    /\ pc = "gather"
    /\ status = "ok"
    /\ LET g == gather_module(Current, root_module)
       IN  Becomes(IF g.status = "ok" THEN [CheckerNew(g.raw, g.engine, g.errors, hash_order) EXCEPT !.unresolved = g.unresolved, !.created = g.created] ELSE g)

\* check: self.check_module(root_module)
CheckModule ==
    /\ pc = "check"
    /\ status = "ok"
    /\ Becomes(check_module(Current, root_module))

\* check: self.solve_constraints()
SolveConstraints ==
    /\ pc = "solve"
    /\ status = "ok"
    /\ Becomes(solve_constraints(Current))

\* check: the loop that turns engine.mismatches into TypeMismatch errors
ReportMismatches ==
    /\ pc = "report"
    /\ status = "ok"
    /\ Becomes(report_mismatches(Current))

NextCheck == InsertHirModule \/ GatherModule \/ CheckModule \/ SolveConstraints \/ ReportMismatches

SpecCheck == InitCheck /\ [][NextCheck]_vars

-----------------------------------------------------------------------------
(* The scope-level specification: any sequence of calls of the public      *)
(* Scopes API (types.rs:490-551), starting from Scopes::new, closed by one *)
(* lookup from the current scope.                                          *)

\* the number of calls of a run that create a scope or insert a binding
MaxCalls == 3

ScopeIds(raw) == 0..(Len(raw) - 1)

RECURSIVE EntriesFrom(_, _)
\* the number of bindings held by the scopes from scope i on
EntriesFrom(raw, i) ==
    IF i > Len(raw) THEN 0 ELSE Len(raw[i].variables) + Len(raw[i].modules) + EntriesFrom(raw, i + 1)

\* the scopes created and the bindings inserted so far
Calls(raw) == (Len(raw) - 1) + EntriesFrom(raw, 1)

\* an Id (ast.rs): one to three names
QualifiedIds == UNION {[1..n -> Names] : n \in 1..3}

\* the Scopes the variables hold
CurrentScopes == [raw |-> scopes.raw, current |-> scopes.current, status |-> status]

\* the variables the Scopes API does not touch
NoScopes == <<root_module, hash_order, engine, constraints, errors, unresolved>>

\* the variables after a call that left the Scopes as s
ScopesBecome(s) ==
    /\ scopes' = [raw |-> s.raw, current |-> s.current, scope_inc |-> 0]
    /\ status' = s.status
    /\ UNCHANGED <<pc, last>>
    /\ UNCHANGED NoScopes

InitScopes ==
    /\ root_module = NoOp
    /\ hash_order = <<>>
    /\ scopes = [raw |-> <<ScopeNew(NoConnection)>>, current |-> 0, scope_inc |-> 0]
    /\ engine = EngineNew
    /\ constraints = <<>>
    /\ errors = <<>>
    /\ unresolved = <<>>
    /\ status = "ok"
    /\ last = NoOp
    /\ pc = "scopes"

\* scopes.create_scope(connection), the connection leading to the current
\* scope as at every call site (gather.rs:61-63)
CreateScope ==
    /\ pc = "scopes"
    /\ status = "ok"
    /\ Calls(scopes.raw) < MaxCalls
    /\ \E connection \in {Inclusive(scopes.current), Exclusive(scopes.current)} :
          ScopesBecome(create_scope(CurrentScopes, connection))

\* scopes.exit_current_scope()
ExitCurrentScope ==
    /\ pc = "scopes"
    /\ status = "ok"
    /\ ScopesBecome(exit_current_scope(CurrentScopes))

\* scopes.insert_variable(name, variable), the variable holding a fresh TypeId
InsertVariable ==
    /\ pc = "scopes"
    /\ status = "ok"
    /\ Calls(scopes.raw) < MaxCalls
    /\ \E name \in Names :
          ScopesBecome([CurrentScopes EXCEPT !.raw = PushVariable(@, scopes.current, name, Variable(EntriesFrom(scopes.raw, 1), TRUE))])

\* scopes.insert_module(name, scope_id)
InsertModule ==
    /\ pc = "scopes"
    /\ status = "ok"
    /\ Calls(scopes.raw) < MaxCalls
    /\ \E name \in Names, scope_id \in ScopeIds(scopes.raw) :
          ScopesBecome([CurrentScopes EXCEPT !.raw = PushModule(@, scopes.current, name, scope_id)])

\* scopes.search_id(id), for each id of QualifiedIds
SearchId ==
    /\ pc = "scopes"
    /\ status = "ok"
    /\ last' = [op |-> "search_id", found |-> [id \in QualifiedIds |-> search_id(scopes.raw, id, scopes.current)]]
    /\ pc' = "searched"
    /\ UNCHANGED <<scopes, status>>
    /\ UNCHANGED NoScopes

\* scopes.search_module(name), for each name
SearchModule ==
    /\ pc = "scopes"
    /\ status = "ok"
    /\ last' = [op |-> "search_module", found |-> [name \in Names |-> search_module(scopes.raw, name, scopes.current)]]
    /\ pc' = "searched"
    /\ UNCHANGED <<scopes, status>>
    /\ UNCHANGED NoScopes

NextScopes == CreateScope \/ ExitCurrentScope \/ InsertVariable \/ InsertModule \/ SearchId \/ SearchModule

SpecScopes == InitScopes /\ [][NextScopes]_vars

-----------------------------------------------------------------------------
(* The module builder (front_end/module.rs) on the Entry tree that         *)
(* Entry::from (file.rs:22-93) reads from a directory.  A path is          *)
(* modelled by its stem.  Only `.bell` files become entries, so a          *)
(* directory holds at most one File and, its sub-directories bearing plain *)
(* names, at most one Directory of a stem.  The files are empty: their AST *)
(* is the empty program and parsing them reports nothing.                  *)

\* the number of children of a directory
MaxChildren == 3

EntryNames == {"foo", "bar"}

File(name) == [kind |-> "File", name |-> name, entries |-> <<>>]

Directory(name, entries) == [kind |-> "Directory", name |-> name, entries |-> entries]

ConflictingModuleNames(parent, name) == [kind |-> "ConflictingModuleNames", parent |-> parent, name |-> name]

\* what one directory can hold: no two entries of the same kind and stem
Listing(entries) == \A i, j \in 1..Len(entries) : (i # j /\ entries[i].kind = entries[j].kind) => entries[i].name # entries[j].name

\* the listings over the entries of S in the order the file system gives them
Listings(S) == {entries \in {<<>>} \cup SeqsUpTo(S, MaxChildren) : Listing(entries)}

Files == {File(name) : name \in EntryNames}

\* the root directory, its files and its sub-directories of files
Entries == {Directory("root", entries) : entries \in Listings(Files \cup {Directory(name, files) : name \in EntryNames, files \in Listings(Files)})}

\* EntryTransformer, with the Module the last transform call returned
TransformerNew == [adjacent_names |-> {}, current_parent_id |-> <<>>, errors |-> <<>>, module |-> NoOp]

\* the name test both arms of transform start with (module.rs:27-32, 42-47)
CheckAdjacent(t, name) ==
    IF name \in t.adjacent_names THEN InsertError(t, ConflictingModuleNames(t.current_parent_id, name)) ELSE t

RECURSIVE transform(_, _)
RECURSIVE TransformEntries(_, _, _, _)

\* entries.into_iter().map(|entry| self.transform(entry)).collect(), from entry i on
TransformEntries(t, entries, i, modules) ==
    IF i > Len(entries) THEN [t EXCEPT !.module = modules]
    ELSE Then(transform(t, entries[i]), LAMBDA next : TransformEntries(next, entries, i + 1, Append(modules, next.module)))

\* EntryTransformer::transform
transform(t, entry) ==
    IF entry.kind = "File"
    THEN [CheckAdjacent(t, entry.name) EXCEPT !.adjacent_names = @ \cup {entry.name}, !.module = Program(entry.name, <<>>)]
    ELSE Then(TransformEntries([CheckAdjacent(t, entry.name) EXCEPT !.current_parent_id = Append(@, entry.name)], entry.entries, 1, <<>>),
              LAMBDA mapped : [mapped EXCEPT !.current_parent_id = SubSeq(@, 1, Len(@) - 1),
                                             !.adjacent_names = {},
                                             !.module = Submodule(entry.name, mapped.module)])

\* module::from
from(entry) == transform(TransformerNew, entry)

\* the variables the module builder does not touch
NoModules == <<root_module, hash_order, scopes, engine, constraints, unresolved, status>>

InitModules ==
    /\ root_module \in Entries
    /\ hash_order = <<>>
    /\ scopes = NoOp
    /\ engine = EngineNew
    /\ constraints = <<>>
    /\ errors = <<>>
    /\ unresolved = <<>>
    /\ status = "ok"
    /\ last = NoOp
    /\ pc = "entries"

\* front_end::module::from(entry, errors)
From ==
    /\ pc = "entries"
    /\ errors' = from(root_module).errors
    /\ last' = [op |-> "from", module |-> from(root_module).module]
    /\ pc' = "modules"
    /\ UNCHANGED NoModules

NextModules == From

SpecModules == InitModules /\ [][NextModules]_vars

-----------------------------------------------------------------------------
(* The lowering of the AST to the HIR (hir.rs:124-301).  An ast::Expression *)
(* (ast.rs:84-132) is a record like the HIR's; literal values, which the    *)
(* lowering copies, are left out.  A lowering in progress is [errors, hir]: *)
(* the diagnostics so far and the value the last to_hir call returned.     *)

\* the nesting depth of the generated expressions
MaxDepth == 2

AstInt == [kind |-> "Int"]

AstBoolean == [kind |-> "Boolean"]

AstString == [kind |-> "String"]

AstIdentifier(id) == [kind |-> "Identifier", id |-> id]

AstFunction(name, type_hint, parameters, body) == [kind |-> "Function", name |-> name, type_hint |-> type_hint, parameters |-> parameters, body |-> body]

AstInstance(object, fields) == [kind |-> "Instance", object |-> object, fields |-> fields]

AstCall(function, parameters) == [kind |-> "Call", function |-> function, parameters |-> parameters]

AstDeclaration(name, type_hint, value) == [kind |-> "Declaration", name |-> name, type_hint |-> type_hint, value |-> value]

AstAssignment(to, from_) == [kind |-> "Assignment", to |-> to, from |-> from_]

AstAccess(from_, field) == [kind |-> "Access", from |-> from_, field |-> field]

AstBlock(expressions, tail) == [kind |-> "Block", expressions |-> expressions, tail |-> tail]

AstStructure(name, fields) == [kind |-> "Structure", name |-> name, fields |-> fields]

AstConditional(branches, tail) == [kind |-> "Conditional", branches |-> branches, tail |-> tail]

AstBreak(expression) == [kind |-> "Break", expression |-> expression]

AstReturn(expression) == [kind |-> "Return", expression |-> expression]

AstImport(id) == [kind |-> "Import", id |-> id]

AstLoop(body) == [kind |-> "Loop", body |-> body]

AstContinue == [kind |-> "Continue"]

AstError == [kind |-> "Error"]

InvalidAssign(value) == [kind |-> "InvalidAssign", value |-> value]

Unexpected(found) == [kind |-> "Unexpected", found |-> found]

\* From<Expression> for &'static str (hir.rs:83-108)
KindName(expression) ==
    CASE expression.kind = "Unit" -> "unit"
      [] expression.kind = "Int" -> "integer"
      [] expression.kind = "Boolean" -> "boolean"
      [] expression.kind = "String" -> "string"
      [] expression.kind = "Id" -> "identifier"
      [] expression.kind = "Function" -> "function"
      [] expression.kind = "Instance" -> "instance"
      [] expression.kind = "Call" -> "call"
      [] expression.kind = "Declaration" -> "declaration"
      [] expression.kind = "Assignment" -> "assignment"
      [] expression.kind = "Access" -> "field"
      [] expression.kind = "Block" -> "block"
      [] expression.kind = "Structure" -> "structure"
      [] expression.kind = "Conditional" -> "conditional"
      [] expression.kind = "Break" -> "break"
      [] expression.kind = "Return" -> "return"
      [] expression.kind = "Continue" -> "continue"
      [] expression.kind = "Loop" -> "loop"
      [] expression.kind = "Use" -> "import"
      [] expression.kind = "Error" -> "error"

LoweringNew == [errors |-> <<>>, hir |-> NoOp]

Lowered(t, hir) == [t EXCEPT !.hir = hir]

RECURSIVE to_hir(_, _)
RECURSIVE ToHirList(_, _, _, _)
RECURSIVE ToHirFields(_, _, _, _)

\* .map(|expression| expression.to_hir(errors)).collect(), from entry i on
ToHirList(t, list, i, hirs) ==
    IF i > Len(list) THEN Lowered(t, hirs)
    ELSE Then(to_hir(t, list[i]), LAMBDA next : ToHirList(next, list, i + 1, Append(hirs, next.hir)))

\* the fields of an instance expression, from field i on (hir.rs:153-156)
ToHirFields(t, fields, i, hirs) ==
    IF i > Len(fields) THEN Lowered(t, hirs)
    ELSE Then(to_hir(t, fields[i].value), LAMBDA next : ToHirFields(next, fields, i + 1, Append(hirs, Field(fields[i].name, next.hir))))

\* the Assignment arm (hir.rs:176-200)
ToHirAssignment(t, expression) ==
    Then(to_hir(t, expression.to),
         LAMBDA to :
             IF to.hir.kind = "Id"
             THEN Then(to_hir(to, expression.from), LAMBDA from_ : Lowered(from_, EAssignment(AssignVariable(to.hir.id), from_.hir)))
             ELSE IF to.hir.kind = "Access"
             THEN Then(to_hir(to, expression.from), LAMBDA from_ : Lowered(from_, EAssignment(AssignField(to.hir.from, to.hir.id), from_.hir)))
             ELSE Lowered(InsertError(to, InvalidAssign(KindName(to.hir))), EError))

\* the failure branch as it would be if the remaining branches were passed over
FailureOfElse(expression) ==
    IF expression.tail.some THEN expression.tail.value
    ELSE AstBlock(<<>>, None)

\* what the failure branch of a conditional is lowered from (hir.rs:233-248)
FailureOf(expression) ==
    IF Len(expression.branches) > 1 THEN AstConditional(Tail(expression.branches), expression.tail)
    ELSE IF expression.tail.some THEN expression.tail.value
    ELSE AstBlock(<<>>, None)

\* the Conditional arm (hir.rs:219-253): condition, failure, success
ToHirConditional(t, expression) ==
    Then(to_hir(t, expression.branches[1].condition),
         LAMBDA condition :
             Then(to_hir(condition, FailureOf(expression)),
                  LAMBDA failure :
                      Then(to_hir(failure, expression.branches[1].branch),
                           LAMBDA success : Lowered(success, EConditional(condition.hir, success.hir, failure.hir)))))

\* the Block arm (hir.rs:205-214)
ToHirBlock(t, expression) ==
    Then(ToHirList(t, expression.expressions, 1, <<>>),
         LAMBDA expressions :
             IF expression.tail.some
             THEN Then(to_hir(expressions, expression.tail.value), LAMBDA tail : Lowered(tail, EBlock(expressions.hir, tail.hir)))
             ELSE Lowered(expressions, EBlock(expressions.hir, EUnit)))

\* ToHir<(Expression, Span)> for (ast::Expression, Span)
to_hir(t, expression) ==
    CASE expression.kind = "Int" -> Lowered(t, EInt)
      [] expression.kind = "Boolean" -> Lowered(t, EBoolean)
      [] expression.kind = "String" -> Lowered(t, EString)
      [] expression.kind = "Identifier" -> Lowered(t, EId(expression.id))
      [] expression.kind = "Function" ->
            Then(to_hir(t, expression.body),
                 LAMBDA body : Lowered(body, EFunction(HirFunction(expression.name, expression.type_hint, expression.parameters, body.hir))))
      [] expression.kind = "Instance" ->
            Then(ToHirFields(t, expression.fields, 1, <<>>), LAMBDA fields : Lowered(fields, EInstance(expression.object, fields.hir)))
      [] expression.kind = "Call" ->
            Then(to_hir(t, expression.function),
                 LAMBDA function :
                     Then(ToHirList(function, expression.parameters, 1, <<>>),
                          LAMBDA parameters : Lowered(parameters, ECall(function.hir, parameters.hir))))
      [] expression.kind = "Declaration" ->
            Then(to_hir(t, expression.value),
                 LAMBDA value : Lowered(value, EDeclaration(expression.name, expression.type_hint, value.hir)))
      [] expression.kind = "Assignment" -> ToHirAssignment(t, expression)
      [] expression.kind = "Access" ->
            Then(to_hir(t, expression.from), LAMBDA from_ : Lowered(from_, EAccess(from_.hir, expression.field)))
      [] expression.kind = "Block" -> ToHirBlock(t, expression)
      [] expression.kind = "Structure" -> Lowered(t, EStructure(HirStructure(expression.name, expression.fields)))
      [] expression.kind = "Conditional" -> ToHirConditional(t, expression)
      [] expression.kind = "Break" -> Then(to_hir(t, expression.expression), LAMBDA value : Lowered(value, EBreak(value.hir)))
      [] expression.kind = "Return" -> Then(to_hir(t, expression.expression), LAMBDA value : Lowered(value, EReturn(value.hir)))
      [] expression.kind = "Continue" -> Lowered(t, EContinue)
      [] expression.kind = "Loop" -> Then(to_hir(t, expression.body), LAMBDA body : Lowered(body, ELoop(body.hir)))
      [] expression.kind = "Error" -> Lowered(t, EError)
      [] expression.kind = "Import" -> Lowered(t, EUse)

RECURSIVE ProgramToHir(_, _, _, _)
\* ToHir<Program> for Vec<(ast::Expression, Span)>, from expression i on
ProgramToHir(t, ast, i, program) ==
    IF i > Len(ast) THEN Lowered(t, program)
    ELSE Then(to_hir(t, ast[i]),
              LAMBDA next :
                  CASE next.hir.kind = "Function" -> ProgramToHir(next, ast, i + 1, Append(program, TopFunction(next.hir.function)))
                    [] next.hir.kind = "Structure" -> ProgramToHir(next, ast, i + 1, Append(program, TopStructure(next.hir.structure)))
                    [] next.hir.kind = "Use" -> ProgramToHir(next, ast, i + 1, Append(program, TopImport(ast[i].id)))
                    [] OTHER -> ProgramToHir(InsertError(next, Unexpected(KindName(next.hir))), ast, i + 1, program))

\* the expressions the generated ones are built from
AstLeaves == {AstInt, AstIdentifier(<<"x">>)}

RECURSIVE Asts(_)
\* the expressions nested to the depth at most
Asts(depth) ==
    IF depth = 0 THEN AstLeaves
    ELSE Then(Asts(depth - 1),
              LAMBDA below :
                  below
                  \cup {AstAssignment(to, from_) : to \in below, from_ \in below}
                  \cup {AstAccess(from_, "x") : from_ \in below}
                  \cup {AstBlock(<<>>, Some(tail)) : tail \in below}
                  \cup {AstBreak(value) : value \in below})

\* 1 = 2 = 3, which is 1 = (2 = 3)
ChainedAssign == AstAssignment(AstInt, AstAssignment(AstInt, AstInt))

\* one expression for each of the remaining arms, each holding 1 = 2 = 3 and x = 1
AstScenarios ==
    {AstFunction("f", None, <<>>, ChainedAssign),
     AstInstance(<<"P">>, <<Field("x", ChainedAssign), Field("y", AstAssignment(AstIdentifier(<<"x">>), AstInt))>>),
     AstCall(AstIdentifier(<<"f">>), <<ChainedAssign, AstString>>),
     AstDeclaration("x", None, ChainedAssign),
     AstBlock(<<ChainedAssign, AstStructure("P", <<>>)>>, None),
     AstConditional(<<[condition |-> AstBoolean, branch |-> ChainedAssign]>>, None),
     AstConditional(<<[condition |-> AstBoolean, branch |-> AstInt], [condition |-> ChainedAssign, branch |-> AstInt]>>, Some(ChainedAssign)),
     AstReturn(ChainedAssign),
     AstLoop(AstBlock(<<AstContinue, AstError, AstImport(<<"B", "f">>)>>, Some(ChainedAssign)))}

\* the number of branches of a generated conditional
MaxBranches == 3

\* a branch of a conditional: `if condition branch` or `else if condition branch`
Branch(condition, branch) == [condition |-> condition, branch |-> branch]

\* the blocks the branches and the else of the generated conditionals are
AstBranchBlocks == {AstBlock(<<>>, Some(value)) : value \in {AstInt, AstString}}

\* if c1 b1 else if c2 b2 ... [else e]
AstConditionals ==
    {AstConditional(branches, tail) :
        branches \in SeqsUpTo({Branch(condition, branch) : condition \in {AstBoolean, AstIdentifier(<<"x">>)}, branch \in AstBranchBlocks}, MaxBranches),
        tail \in {None} \cup {Some(block) : block \in AstBranchBlocks}}

\* func main() { expression; }
AstMain(expression) == AstFunction("main", None, <<>>, AstBlock(<<expression>>, None))

\* the programs lowered: each expression as the body of main, and the
\* scenarios also at the top level
AstPrograms == {<<AstMain(expression)>> : expression \in Asts(MaxDepth) \cup AstScenarios \cup AstConditionals} \cup {<<expression>> : expression \in AstScenarios}

\* the variables the lowering does not touch
NoLowering == <<root_module, hash_order, scopes, engine, constraints, unresolved, status>>

InitLower ==
    /\ root_module \in AstPrograms
    /\ hash_order = <<>>
    /\ scopes = NoOp
    /\ engine = EngineNew
    /\ constraints = <<>>
    /\ errors = <<>>
    /\ unresolved = <<>>
    /\ status = "ok"
    /\ last = NoOp
    /\ pc = "ast"

\* ast.to_hir(errors) on the program of a module (hir.rs:313-316)
ToHir ==
    /\ pc = "ast"
    /\ errors' = ProgramToHir(LoweringNew, root_module, 1, <<>>).errors
    /\ last' = [op |-> "to_hir", hir |-> ProgramToHir(LoweringNew, root_module, 1, <<>>).hir]
    /\ pc' = "hir"
    /\ UNCHANGED NoLowering

NextLower == ToHir

SpecLower == InitLower /\ [][NextLower]_vars

-----------------------------------------------------------------------------
(* The lexer (front_end/lex.rs).  A text is a sequence of one-character    *)
(* strings and a position is an index into it, Len(text) + 1 being the end *)
(* of the input.  The parsers are those of chumsky: `choice` and `or` take *)
(* the first alternative that matches, `repeated` takes as many items as   *)
(* match and does not give any back.  The texts hold no `{`, `}` or `"`,   *)
(* so the block and string parsers (lex.rs:66-94) match nowhere.           *)

\* the length of the generated texts
MaxText == 3

Digits == <<"0", "1", "2", "3", "4", "5", "6", "7", "8", "9">>

IsDigit(character) == \E i \in 1..Len(Digits) : Digits[i] = character

DigitValue(character) == (CHOOSE i \in 1..Len(Digits) : Digits[i] = character) - 1

\* the letters of the texts: text::ident starts at a letter or `_`
IsLetter(character) == character \in {"a", "f", "g", "i", "x", "_"}

IsWhitespace(character) == character \in {" ", "\n"}

IsIdentPart(character) == IsLetter(character) \/ IsDigit(character)

\* the character classes of the parsers: digits, the characters of an
\* identifier, whitespace, and any()
InClass(class, character) ==
    CASE class = "digit" -> IsDigit(character)
      [] class = "ident" -> IsIdentPart(character)
      [] class = "whitespace" -> IsWhitespace(character)
      [] class = "any" -> TRUE

\* the largest i32
MaxI32 == 2147483647

RECURSIVE RunEnd(_, _, _)
\* the position after the longest run of characters of the class from position i
RunEnd(text, i, class) ==
    IF i <= Len(text) /\ InClass(class, text[i]) THEN RunEnd(text, i + 1, class) ELSE i

\* just(pattern) matches at position i
StartsWith(text, i, pattern) ==
    /\ i + Len(pattern) - 1 <= Len(text)
    /\ \A k \in 1..Len(pattern) : text[i + k - 1] = pattern[k]

Symbol(pattern, token) == [pattern |-> pattern, token |-> token]

\* the alternatives of `symbol` in their order (lex.rs:38-62)
Symbols ==
    <<Symbol(<<"+">>, "Add"), Symbol(<<"-">>, "Minus"), Symbol(<<"*">>, "Multiply"), Symbol(<<"/">>, "Divide"),
      Symbol(<<"%">>, "Modulo"), Symbol(<<"<", "=">>, "LesserOrEqual"), Symbol(<<">", "=">>, "GreaterOrEqual"),
      Symbol(<<"=", "=">>, "Equal"), Symbol(<<"!", "=">>, "NotEqual"), Symbol(<<"&">>, "Reference"),
      Symbol(<<"|", "|">>, "Or"), Symbol(<<"&", "&">>, "And"), Symbol(<<"=">>, "Assign"),
      Symbol(<<":", ":">>, "ModuleAcess"), Symbol(<<":">>, "Specify"), Symbol(<<".">>, "Of"),
      Symbol(<<"-", ">">>, "Arrow"), Symbol(<<";">>, "Terminate"), Symbol(<<"<">>, "Lesser"),
      Symbol(<<">">>, "Greater"), Symbol(<<"(">>, "Left"), Symbol(<<")">>, "Right"), Symbol(<<",">>, "Separate")>>

\* the alternatives in an order that puts every operator before its prefixes
SymbolsLongestFirst ==
    SelectSeq(Symbols, LAMBDA symbol : Len(symbol.pattern) = 2) \o SelectSeq(Symbols, LAMBDA symbol : Len(symbol.pattern) = 1)

\* a token and the position after it
Lexed(token, next) == Some([token |-> token, next |-> next])

\* choice(...) over the alternatives at position i: the first that matches
ChoiceAt(symbols, text, i) ==
    IF \E k \in 1..Len(symbols) : StartsWith(text, i, symbols[k].pattern)
    THEN Then(symbols[CHOOSE k \in 1..Len(symbols) :
                          /\ StartsWith(text, i, symbols[k].pattern)
                          /\ \A j \in 1..(k - 1) : ~StartsWith(text, i, symbols[j].pattern)],
              LAMBDA symbol : Lexed([kind |-> symbol.token], i + Len(symbol.pattern)))
    ELSE None

RECURSIVE ParseI32(_, _, _, _)
\* characters.parse::<i32>() on the digits of text from position i up to
\* position j - 1, after the value acc: each step is a checked multiplication
\* and a checked addition, and the result is Err when one does not fit
ParseI32(text, i, j, acc) ==
    IF i >= j THEN Some(acc)
    ELSE IF acc > (MaxI32 - DigitValue(text[i])) \div 10 THEN None
    ELSE ParseI32(text, i + 1, j, 10 * acc + DigitValue(text[i]))

\* text::int(10) at position i, a digit: a lone 0, or a run of digits
IntEnd(text, i) == IF text[i] = "0" THEN i + 1 ELSE RunEnd(text, i, "digit")

\* the keyword table of `identifier` (lex.rs:16-30), for the words of the texts
Keyword(word) ==
    CASE word = <<"i", "f">> -> [kind |-> "If"]
      [] OTHER -> [kind |-> "Name", name |-> word]

\* identifier.or(integer).or(symbol) at position i; "panic" is the unwrap of
\* a failed parse (lex.rs:35)
TokenAt(text, i) ==
    IF i > Len(text) THEN None
    ELSE IF IsLetter(text[i])
    THEN Lexed(Keyword(SubSeq(text, i, RunEnd(text, i, "ident") - 1)), RunEnd(text, i, "ident"))
    ELSE IF IsDigit(text[i])
    THEN IF ParseI32(text, i, IntEnd(text, i), 0).some
         THEN Lexed([kind |-> "Int", value |-> ParseI32(text, i, IntEnd(text, i), 0).value], IntEnd(text, i))
         ELSE Lexed([kind |-> "panic"], IntEnd(text, i))
    ELSE ChoiceAt(Symbols, text, i)

RECURSIVE MetaTokens(_, _, _)
\* meta_token.repeated() from position i on: each token padded by whitespace
MetaTokens(text, i, tokens) ==
    Then(TokenAt(text, RunEnd(text, i, "whitespace")),
         LAMBDA found :
             IF ~found.some THEN [tokens |-> tokens, next |-> i, status |-> "ok"]
             ELSE IF found.value.token.kind = "panic" THEN [tokens |-> tokens, next |-> i, status |-> "panic"]
             ELSE MetaTokens(text, RunEnd(text, found.value.next, "whitespace"), Append(tokens, found.value.token)))

\* just("/*").then(any().repeated()).then(just("*/")) at position i (lex.rs:102)
BlockCommentAt(text, i) ==
    IF StartsWith(text, i, <<"/", "*">>) /\ StartsWith(text, RunEnd(text, i + 2, "any"), <<"*", "/">>)
    THEN Some(RunEnd(text, i + 2, "any") + 2)
    ELSE None

\* just("//").then(any().repeated().then(text::newline().or(end()))) at position i (lex.rs:104-106)
CommentAt(text, i) ==
    IF StartsWith(text, i, <<"/", "/">>) /\ RunEnd(text, i + 2, "any") = Len(text) + 1
    THEN Some(RunEnd(text, i + 2, "any"))
    ELSE None

RECURSIVE Comments(_, _)
\* block_comment.or(comment).padded().repeated() from position i on
Comments(text, i) ==
    Then(RunEnd(text, i, "whitespace"),
         LAMBDA start :
             IF BlockCommentAt(text, start).some THEN Comments(text, RunEnd(text, BlockCommentAt(text, start).value, "whitespace"))
             ELSE IF CommentAt(text, start).some THEN Comments(text, RunEnd(text, CommentAt(text, start).value, "whitespace"))
             ELSE i)

EndOfFile == [kind |-> "EndOfFile"]

\* lex: the tokens, the diagnostics and whether the call returned
Lex(text) ==
    Then(MetaTokens(text, Comments(text, 1), <<>>),
         LAMBDA body :
             IF body.status = "panic" THEN [tokens |-> <<>>, errors |-> <<>>, status |-> "panic"]
             ELSE IF Comments(text, body.next) = Len(text) + 1
             THEN [tokens |-> Append(body.tokens, EndOfFile), errors |-> <<>>, status |-> "ok"]
             ELSE [tokens |-> <<>>, errors |-> <<Unexpected(text[Comments(text, body.next)])>>, status |-> "ok"])

\* the characters of the operators
OperatorCharacters == {"<", ">", "=", "!", "&", "|", ":", "-"}

\* a decimal literal as a text
Literal(digits) == [i \in 1..Len(digits) |-> Digits[digits[i] + 1]]

\* literals around the ends of the i32 range
RangeLiterals ==
    {Literal(<<0>>), Literal(<<7>>), Literal(<<4, 2>>), Literal(<<0, 7>>),
     Literal(<<2, 1, 4, 7, 4, 8, 3, 6, 4, 6>>), Literal(<<2, 1, 4, 7, 4, 8, 3, 6, 4, 7>>),
     Literal(<<2, 1, 4, 7, 4, 8, 3, 6, 4, 8>>), Literal(<<4, 2, 9, 4, 9, 6, 7, 2, 9, 6>>),
     Literal(<<9, 9, 9, 9, 9, 9, 9, 9, 9, 9, 9>>)}

\* texts with comments between and around tokens
CommentTexts ==
    {<<"/", "*", "a", "*", "/">>, <<"/", "*", "/", "*", "*", "/", "*", "/">>, <<"/", "*", "a">>,
     <<"x", " ", "/", "/", "a">>, <<"/", "/", "a", "\n", "x">>, <<"x", "/", "*", "a", "*", "/", "x">>}

Texts ==
    {<<>>} \cup SeqsUpTo(OperatorCharacters \cup {" ", "x", "1"}, MaxText) \cup RangeLiterals \cup CommentTexts
    \cup {<<"x">> \o literal \o <<";">> : literal \in RangeLiterals}

\* the variables the lexer does not touch
NoLexing == <<root_module, hash_order, scopes, engine, constraints, unresolved>>

InitLex ==
    /\ root_module \in Texts
    /\ hash_order = <<>>
    /\ scopes = NoOp
    /\ engine = EngineNew
    /\ constraints = <<>>
    /\ errors = <<>>
    /\ unresolved = <<>>
    /\ status = "ok"
    /\ last = NoOp
    /\ pc = "text"

\* front_end::lex::lex(path, text, errors)
LexText ==
    /\ pc = "text"
    /\ errors' = Lex(root_module).errors
    /\ status' = Lex(root_module).status
    /\ last' = [op |-> "lex", tokens |-> Lex(root_module).tokens]
    /\ pc' = "tokens"
    /\ UNCHANGED NoLexing

NextLex == LexText

SpecLex == InitLex /\ [][NextLex]_vars

-----------------------------------------------------------------------------
(* The lexer of the earlier revision (src/bell, frontend/lexer.rs), the    *)
(* one whose block comments nest.  Of the token table the model keeps the  *)
(* entries that can match a text of `/`, `*`, letters and whitespace; the  *)
(* generated lexer takes the longest match, so `/*` opens a comment and    *)
(* `//` a line comment in preference to Divide.                            *)

\* the length of the generated text after its opening `/*`
MaxComment == 6

Opening == <<"/", "*">>

Closing == <<"*", "/">>

RECURSIVE skip_block_comment(_, _, _)
\* skip_block_comment(lexer, depth) with remainder the text after the opening
\* marker and index counted from 0: the characters bumped and the Filter
skip_block_comment(remainder, index, depth) ==
    IF index >= Len(remainder) THEN [bump |-> index, filter |-> "Emit"]
    ELSE IF StartsWith(remainder, index + 1, Closing)
    THEN IF depth - 1 = 0 THEN [bump |-> index + 2, filter |-> "Skip"]
         ELSE skip_block_comment(remainder, index + 1, depth - 1)
    ELSE IF StartsWith(remainder, index + 1, Opening)
    THEN skip_block_comment(remainder, index + 1, depth + 1)
    ELSE skip_block_comment(remainder, index + 1, depth)

\* the end of the line comment that starts at position i: `.` matches no newline
LineEnd(text, i) == CHOOSE j \in i..(Len(text) + 1) : (j = Len(text) + 1 \/ text[j] = "\n") /\ \A k \in i..(j - 1) : text[k] # "\n"

RECURSIVE Tokens(_, _, _)
\* Token::lexer(text) from position i on: the tokens it yields
Tokens(text, i, tokens) ==
    IF i > Len(text) THEN tokens
    ELSE IF IsWhitespace(text[i]) THEN Tokens(text, RunEnd(text, i, "whitespace"), tokens)
    ELSE IF StartsWith(text, i, <<"/", "/">>) THEN Tokens(text, LineEnd(text, i), tokens)
    ELSE IF StartsWith(text, i, Opening)
    THEN Then(skip_block_comment(SubSeq(text, i + 2, Len(text)), 0, 1),
              LAMBDA skipped : Tokens(text, i + 2 + skipped.bump,
                                      IF skipped.filter = "Emit" THEN Append(tokens, "UnterminatedBlockComment") ELSE tokens))
    ELSE IF text[i] = "/" THEN Tokens(text, i + 1, Append(tokens, "Divide"))
    ELSE IF text[i] = "*" THEN Tokens(text, i + 1, Append(tokens, "Multiply"))
    ELSE IF IsIdentPart(text[i]) THEN Tokens(text, RunEnd(text, i, "ident"), Append(tokens, "Id"))
    ELSE Tokens(text, i + 1, Append(tokens, "InvalidCharacter"))

IsErrorToken(token) == token \in {"InvalidCharacter", "UnterminatedBlockComment"}

\* tokenize: Err of the first error token, or Ok of the tokens
tokenize(text) ==
    IF \E k \in 1..Len(Tokens(text, 1, <<>>)) : IsErrorToken(Tokens(text, 1, <<>>)[k])
    THEN [ok |-> FALSE, tokens |-> <<>>, error |-> SelectSeq(Tokens(text, 1, <<>>), IsErrorToken)[1]]
    ELSE [ok |-> TRUE, tokens |-> Tokens(text, 1, <<>>), error |-> "none"]

\* texts that open a block comment, and texts with the other tokens
Sources ==
    {Opening \o body : body \in {<<>>} \cup SeqsUpTo({"/", "*", "a"}, MaxComment)}
    \cup {<<"a", " ", "/", " ", "a">>, <<"/", "/", "a", "\n", "a", "*", "a">>, <<"a", "@">>,
           <<"/", "*", " ", "/", "*", " ", "*", "/", "*", "/">>, <<"/", "*", " ", "/", "*", " ", "*", "/", " ", "*", "/", "a">>}

InitTokenize ==
    /\ root_module \in Sources
    /\ hash_order = <<>>
    /\ scopes = NoOp
    /\ engine = EngineNew
    /\ constraints = <<>>
    /\ errors = <<>>
    /\ unresolved = <<>>
    /\ status = "ok"
    /\ last = NoOp
    /\ pc = "text"

\* frontend::lexer::tokenize(filename, text)
Tokenize ==
    /\ pc = "text"
    /\ errors' = IF tokenize(root_module).ok THEN <<>> ELSE <<tokenize(root_module).error>>
    /\ last' = [op |-> "tokenize", tokens |-> tokenize(root_module).tokens]
    /\ pc' = "tokens"
    /\ UNCHANGED <<status, NoLexing>>

NextTokenize == Tokenize

SpecTokenize == InitTokenize /\ [][NextTokenize]_vars

-----------------------------------------------------------------------------
(* Claims about the engine.                                                *)

PrimitiveKinds == {"Integer", "Boolean", "String", "Unit"}

LastUnify == pc = "engine" /\ last.op = "unify"

\* C1: unifying two slots that hold the same primitive kind (Integer,
\* Boolean, String or Unit) records no mismatch and changes no slot.
C1_SamePrimitiveUnifies ==
    (LastUnify /\ Get(last.pre, last.a).kind \in PrimitiveKinds /\ Get(last.pre, last.a).kind = Get(last.pre, last.b).kind)
        => (engine = last.pre)

\* two runs end alike: both exhaust the stack or neither does, every slot
\* stands for the same concrete type, and one records a mismatch iff the other does
SameOutcome(pre, e1, e2) ==
    /\ e1.aborted = e2.aborted
    /\ ~e1.aborted =>
          /\ \A t \in TypeIds(pre) : into_concrete_ty(e1, t) = into_concrete_ty(e2, t)
          /\ (Len(e1.mismatches) > Len(pre.mismatches)) <=> (Len(e2.mismatches) > Len(pre.mismatches))

\* C2: from any engine state, unify(a,b,r) and unify(b,a,r) resolve every
\* slot to the same concrete type and record a mismatch in one run iff in the other.
C2_UnifyCommutes ==
    (pc = "engine" /\ ~engine.aborted) =>
        \A a \in TypeIds(engine), b \in TypeIds(engine), r \in InputReasons :
            SameOutcome(engine, unify(engine, a, b, r), unify(engine, b, a, r))

RECURSIVE LinksToWithin(_, _, _, _)
\* slot a reaches slot b by following one or more links
LinksToWithin(eng, a, b, n) ==
    /\ n > 0
    /\ Get(eng, a).kind = "Link"
    /\ (Get(eng, a).linked_to = b \/ LinksToWithin(eng, Get(eng, a).linked_to, b, n - 1))

LinksTo(eng, a, b) == LinksToWithin(eng, a, b, Len(eng.types))

\* C3: unify(a,b,r) with a and b the same slot, or one linking (through a
\* chain of links) to the other, changes no slot and records no mismatch.
C3_SameSlotIsNoOp ==
    (LastUnify /\ (last.a = last.b \/ LinksTo(last.pre, last.a, last.b) \/ LinksTo(last.pre, last.b, last.a)))
        => (engine = last.pre)

\* C4: a slot is overwritten only while it is Unknown and only with a Link;
\* a slot holding a Link or a concrete type is never modified, and no slot is removed.
C4_OnlyUnknownOverwritten ==
    [][/\ Len(engine'.types) >= Len(engine.types)
       /\ \A t \in TypeIds(engine) :
             Get(engine', t) # Get(engine, t) => (Get(engine, t).kind = "Unknown" /\ Get(engine', t).kind = "Link")]_vars

\* a unify call has overwritten an Unknown slot with a Link, next to a slot it left alone
C4_Witness ==
    /\ LastUnify
    /\ \E t \in TypeIds(last.pre) : Get(last.pre, t).kind = "Unknown" /\ Get(engine, t).kind = "Link"
    /\ \E t \in TypeIds(last.pre) : Get(last.pre, t).kind # "Unknown" /\ Get(engine, t) = Get(last.pre, t)
    /\ Len(engine.mismatches) > 0

-----------------------------------------------------------------------------
(* Claims about the checker.                                               *)

\* the steps of the pipeline that come after check_module
AfterCheckModule == {"solve", "report", "done"}

\* the solve_constraints step has just run and returned
SolveReturned == last.op = "solve" /\ status = "ok"

\* C5: an instance expression P { } that omits the declared field x of P
\* records a mismatch, whether struct P is checked before or after it.
C5_OmittedFieldIsMismatch ==
    (root_module.program \in {StructureFirst, InstanceFirst} /\ pc \in AfterCheckModule) => Len(engine.mismatches) > 0

\* what the object slot of a constraint stands for once links are followed
ObjectOf(eng, constraint) == remove_ref(eng, Get(eng, constraint.object_id))

\* the field map the object of a constraint leads to, when it is an
\* Instance of a slot that resolves to a Structure
FieldsOf(eng, constraint) ==
    LET object == ObjectOf(eng, constraint)
        structure == IF object.kind = "Instance" THEN remove_ref(eng, Get(eng, object.id)) ELSE object
    IN  IF object.kind = "Instance" /\ structure.kind = "Structure" THEN structure.fields ELSE <<>>

HasField(eng, constraint) == FieldIndex(FieldsOf(eng, constraint), constraint.field) # 0

MissingFields(errs) == SelectSeq(errs, LAMBDA e : e.kind = "MissingField")

\* C6: solve_constraints terminates, and when it returns the pending
\* constraints are exactly those whose object resolves to Unknown, every other
\* one having been removed after a unify or after exactly one MissingField.
C6_SolveTerminatesAndSettles ==
    /\ last.op = "solve" => status = "ok"
    /\ SolveReturned =>
          /\ constraints = SelectSeq(last.pre.constraints, LAMBDA k : ObjectOf(engine, k).kind = "Unknown")
          /\ Len(MissingFields(errors)) - Len(MissingFields(last.pre.errors))
                = Cardinality({i \in 1..Len(last.pre.constraints) :
                                  ObjectOf(engine, last.pre.constraints[i]).kind # "Unknown" /\ ~HasField(engine, last.pre.constraints[i])})

\* C7: running solve_constraints again right after it returned emits no
\* diagnostic, records no mismatch, changes no slot and keeps the pending list.
C7_SolveIsFixpoint ==
    SolveReturned =>
        LET again == solve_constraints(Current)
        IN  /\ again.status = "ok"
            /\ again.errors = errors
            /\ again.engine = engine
            /\ again.constraints = constraints

\* solve_constraints returned after solving some constraints, one of them in
\* a second pass, or after solving some and leaving others pending
C7_Witness ==
    /\ SolveReturned
    /\ Len(last.pre.constraints) > Len(constraints)
    /\ \/ Len(constraints) > 0
       \/ \E i \in 1..Len(last.pre.constraints) : ObjectOf(last.pre.engine, last.pre.constraints[i]).kind = "Unknown"

\* the type of the variable declared last under the name, in whichever scope
DeclaredType(name) ==
    LET holders == {i \in 1..Len(scopes.raw) : LastEntry(scopes.raw[i].variables, name).some}
    IN  IF holders = {} THEN [kind |-> "Undeclared"]
        ELSE into_concrete_ty(engine, LastEntry(scopes.raw[CHOOSE i \in holders : TRUE].variables, name).value.variable.type_id)

\* C8: a constraint whose object resolves to an Instance of a Structure
\* holding the field is removed, its result slot has been unified with the
\* field's slot (they stand for one type, or the unification recorded their
\* mismatch) and no MissingField names the field; and the program
\* struct P { x: Int } func main() { var p = P { x: 1 }; var y: Int = p.x; }
\* runs to the end with y an Integer and no diagnostics.
C8_FieldAccessResolves ==
    /\ SolveReturned =>
          \A i \in 1..Len(last.pre.constraints) :
              LET k == last.pre.constraints[i]
                  fields == FieldsOf(engine, k)
              IN  HasField(engine, k) =>
                      /\ \A j \in 1..Len(constraints) : constraints[j] # k
                      /\ \/ into_concrete_ty(engine, k.field_id) = into_concrete_ty(engine, fields[FieldIndex(fields, k.field)].ty)
                         \/ \E m \in (Len(last.pre.engine.mismatches) + 1)..Len(engine.mismatches) : engine.mismatches[m].a = k.field_id
                      /\ \A j \in 1..Len(errors) : errors[j].kind = "MissingField" => errors[j].field_name # k.field
    /\ root_module.program = FieldAccessProgram =>
          /\ status = "ok"
          /\ pc = "done" => (errors = <<>> /\ DeclaredType("y") = Integer)

TypeMismatches(errs) == SelectSeq(errs, LAMBDA e : e.kind = "TypeMismatch")

\* the TypeMismatch that stands for the i-th recorded mismatch
ReportOf(eng, i) == TypeMismatch(collect_trace(eng, eng.mismatches[i].a).elements, collect_trace(eng, eng.mismatches[i].b).elements, eng.mismatches[i].reason)

RECURSIVE IdOccurrences(_)
RECURSIVE IdOccurrencesIn(_, _)

\* the identifier occurrences in the expressions of a list from entry i on
IdOccurrencesIn(expressions, i) ==
    IF i > Len(expressions) THEN 0 ELSE IdOccurrences(expressions[i]) + IdOccurrencesIn(expressions, i + 1)

\* the identifier occurrences the checker looks up in an expression
IdOccurrences(expression) ==
    CASE expression.kind = "Id" -> 1
      [] expression.kind = "Function" -> IdOccurrences(expression.function.body)
      [] expression.kind = "Instance" -> 1 + IdOccurrencesIn([i \in 1..Len(expression.fields) |-> expression.fields[i].value], 1)
      [] expression.kind = "Call" -> IdOccurrences(expression.function) + IdOccurrencesIn(expression.parameters, 1)
      [] expression.kind = "Declaration" -> IdOccurrences(expression.value)
      [] expression.kind = "Assignment" ->
            IdOccurrences(expression.from) + (IF expression.to.kind = "Variable" THEN 1 ELSE IdOccurrences(expression.to.instance))
      [] expression.kind = "Access" -> IdOccurrences(expression.from)
      [] expression.kind = "Block" -> IdOccurrencesIn(expression.expressions, 1) + IdOccurrences(expression.tail)
      [] expression.kind = "Conditional" ->
            IdOccurrences(expression.condition) + IdOccurrences(expression.success) + IdOccurrences(expression.failure)
      [] expression.kind \in {"Break", "Return"} -> IdOccurrences(expression.expression)
      [] expression.kind = "Loop" -> IdOccurrences(expression.body)
      [] OTHER -> 0

MissingIds(errs) == SelectSeq(errs, LAMBDA e : e.kind = "MissingId")

LiteralType(expression) ==
    CASE expression.kind = "Unit" -> Unit
      [] expression.kind = "Int" -> Integer
      [] expression.kind = "Boolean" -> Boolean
      [] expression.kind = "String" -> String

\* C11: a conditional whose branches are literals of different primitive
\* types records exactly one Mismatch, with reason Conditional, whose sides
\* are the slot of the success tail and the slot of the failure tail, and the
\* diagnostics end with exactly one TypeMismatch, the one for it.
C11_ConditionalMismatch ==
    \A success \in PrimitiveLiterals : \A failure \in PrimitiveLiterals \ {success} :
        (pc \in AfterCheckModule /\ root_module.program = Branches(success, failure)) =>
            /\ status = "ok"
            /\ Len(engine.mismatches) = 1
            /\ engine.mismatches[1].reason = "Conditional"
            /\ engine.mismatches[1].a < engine.mismatches[1].b
            /\ Get(engine, engine.mismatches[1].a) = LiteralType(success)
            /\ Get(engine, engine.mismatches[1].b) = LiteralType(failure)
            /\ pc = "done" => (errors = <<ReportOf(engine, 1)>> /\ errors[1].kind = "TypeMismatch" /\ errors[1].reason = "Conditional")

\* func main() { if true { 1 } else { true }; } has been checked to the end
C11_Witness ==
    /\ pc = "done"
    /\ root_module.program = Branches(EInt, EBoolean)
    /\ Len(TypeMismatches(errors)) = 1

\* C12: the value of a loop expression is the slot its breaks unify with:
\* after var x = loop { break 0; } the variable x is an Integer, and with the
\* hint x: Int nothing mismatches.
C12_LoopHasBreakType ==
    (pc \in AfterCheckModule /\ root_module.program \in {LoopValue, LoopValueHinted}) =>
        /\ status = "ok"
        /\ DeclaredType("x") = Integer
        /\ engine.mismatches = <<>>

RECURSIVE FlowOutside(_, _, _)
RECURSIVE FlowOutsideIn(_, _, _, _)

\* FlowOutside over the expressions of a list from entry i on
FlowOutsideIn(expressions, i, in_loop, construct) ==
    IF i > Len(expressions) THEN 0
    ELSE FlowOutside(expressions[i], in_loop, construct) + FlowOutsideIn(expressions, i + 1, in_loop, construct)

\* how many `construct` expressions ("break" or "continue") of an expression
\* have no loop around them inside the function body they are part of
FlowOutside(expression, in_loop, construct) ==
    CASE expression.kind = "Break" ->
            (IF construct = "break" /\ ~in_loop THEN 1 ELSE 0) + FlowOutside(expression.expression, in_loop, construct)
      [] expression.kind = "Continue" -> IF construct = "continue" /\ ~in_loop THEN 1 ELSE 0
      [] expression.kind = "Loop" -> FlowOutside(expression.body, TRUE, construct)
      [] expression.kind = "Function" -> FlowOutside(expression.function.body, FALSE, construct)
      [] expression.kind = "Block" -> FlowOutsideIn(expression.expressions, 1, in_loop, construct) + FlowOutside(expression.tail, in_loop, construct)
      [] expression.kind = "Conditional" ->
            FlowOutside(expression.condition, in_loop, construct) + FlowOutside(expression.success, in_loop, construct)
                + FlowOutside(expression.failure, in_loop, construct)
      [] expression.kind = "Return" -> FlowOutside(expression.expression, in_loop, construct)
      [] expression.kind = "Declaration" -> FlowOutside(expression.value, in_loop, construct)
      [] OTHER -> 0

InvalidFlows(errs, construct) == SelectSeq(errs, LAMBDA e : e.kind = "InvalidFlow" /\ e.construct = construct)

\* C13: the InvalidFlow diagnostics are exactly the break and continue
\* expressions that no loop encloses inside their function body, a function
\* defined in a loop body starting loop-free; a break in a loop is accepted.
C13_FlowOutsideLoopIsReported ==
    (pc \in AfterCheckModule /\ root_module.program \in FlowPrograms) =>
        /\ status = "ok"
        /\ \A construct \in {"break", "continue"} :
              Len(InvalidFlows(errors, construct)) = FlowOutside(root_module.program[1].function.body, FALSE, construct)

\* C14: var x = a; var x = b; in one block is accepted with no diagnostic
\* and no mismatch, whatever the two value types, and a later reference to x
\* is the x declared last.
C14_ShadowingIsAccepted ==
    \A first \in PrimitiveLiterals \ {EUnit}, second \in PrimitiveLiterals \ {EUnit} :
        (pc \in AfterCheckModule /\ root_module.program = Shadow(first, second)) =>
            /\ status = "ok"
            /\ errors = <<>>
            /\ engine.mismatches = <<>>
            /\ DeclaredType("x") = LiteralType(second)
            /\ DeclaredType("y") = LiteralType(second)

\* func main() { var x = 1; var x = true; var y = x; } has been checked to the end
C14_Witness ==
    /\ pc = "done"
    /\ root_module.program = Shadow(EInt, EBoolean)
    /\ errors = <<>>

\* the steps of the gather pass
GatherSteps == {"insert", "gather"}

ConflictingIdsOf(errs) == SelectSeq(errs, LAMBDA e : e.kind = "ConflictingIds")

\* C15: a second top-level function or structure of a name already bound
\* gives exactly one ConflictingIds and the gather pass runs to its end; a
\* program whose top-level names are all different gives none.
C15_DuplicateNameIsConflict ==
    /\ (pc \in GatherSteps /\ root_module.program \in {TwoFunctions, TwoStructures, DistinctFunctions, FieldAccessProgram}) => status = "ok"
    /\ (pc \in {"check", "solve", "report", "done"} /\ root_module.program \in {TwoFunctions, TwoStructures}) =>
          Len(ConflictingIdsOf(errors)) = 1
    /\ (pc # "engine" /\ root_module.program \in {DistinctFunctions, FieldAccessProgram}) => ConflictingIdsOf(errors) = <<>>

\* the scope of module A of the directory, if the root scope leads to it
ScopeOfImporting == get_id_origin_module(scopes.raw, <<"lib", "A", "f">>, 0)

\* C17: with `use B::f` in program A and `func f` in its sibling B the gather
\* pass emits no MissingId and binds f in the module scope of A, whichever
\* of the two comes first among the children of the directory.
C17_SiblingImportResolves ==
    root_module \in {ImportFirst, ImportSecond} =>
        /\ status = "ok"
        /\ MissingIds(errors) = <<>>
        /\ pc \notin GatherSteps =>
              /\ ScopeOfImporting.some
              /\ Holds(scopes.raw[ScopeOfImporting.value + 1].variables, "f")

-----------------------------------------------------------------------------
(* Claims about the scopes.                                                *)

\* T holds the parent of each of its scopes whose connection is of one of the kinds
ClosedUnder(raw, T, kinds) == \A s \in T : raw[s + 1].connection.kind \in kinds => raw[s + 1].connection.id \in T

\* the scope S and the ancestors reached from it over connections of the kinds only
Reached(raw, S, kinds) ==
    CHOOSE T \in SUBSET ScopeIds(raw) :
        /\ S \in T
        /\ ClosedUnder(raw, T, kinds)
        /\ \A U \in SUBSET ScopeIds(raw) : (S \in U /\ ClosedUnder(raw, U, kinds)) => T \subseteq U

\* the nearest of a set of ancestors: a scope is created after its parent
Nearest(T) == CHOOSE s \in T : \A other \in T : other <= s

\* the variable a lookup of the name from S is to give
VisibleVariable(raw, name, S) ==
    LET holders == {s \in Reached(raw, S, {"Inclusive"}) : Holds(raw[s + 1].variables, name)}
    IN  IF holders = {} THEN None ELSE Some(LastEntry(raw[Nearest(holders) + 1].variables, name).value.variable)

\* the module a lookup of the name from S is to give
VisibleModule(raw, name, S) ==
    LET holders == {s \in Reached(raw, S, {"Inclusive", "Exclusive"}) : Holds(raw[s + 1].modules, name)}
    IN  IF holders = {} THEN None ELSE Some(LastEntry(raw[Nearest(holders) + 1].modules, name).value.scope)

\* the id resolves along the path: each prefix component names the next
\* module of the path and the tail names a variable visible from its end
ResolvesAlong(raw, id, path) ==
    /\ \A i \in 1..(Len(id) - 1) : VisibleModule(raw, id[i], path[i]) = Some(path[i + 1])
    /\ VisibleVariable(raw, id[Len(id)], path[Len(id)]).some

\* C16: a variable lookup consults the scope and its ancestors over
\* Inclusive connections only, a module lookup the ancestors over Inclusive
\* and Exclusive connections; a qualified id resolves exactly if each prefix
\* names a module and the tail a variable visible from the last of them.
C16_LookupFollowsConnections ==
    /\ pc = "scopes" =>
          \A S \in ScopeIds(scopes.raw), name \in Names :
              /\ search_variable(scopes.raw, name, S) = VisibleVariable(scopes.raw, name, S)
              /\ search_module(scopes.raw, name, S) = VisibleModule(scopes.raw, name, S)
    /\ (pc = "searched" /\ last.op = "search_module") =>
          \A name \in Names : last.found[name] = VisibleModule(scopes.raw, name, scopes.current)
    /\ (pc = "searched" /\ last.op = "search_id") =>
          \A id \in QualifiedIds :
              /\ last.found[id].some <=>
                    \E path \in [1..Len(id) -> ScopeIds(scopes.raw)] : path[1] = scopes.current /\ ResolvesAlong(scopes.raw, id, path)
              /\ \A path \in [1..Len(id) -> ScopeIds(scopes.raw)] :
                    (path[1] = scopes.current /\ ResolvesAlong(scopes.raw, id, path)) =>
                        last.found[id] = VisibleVariable(scopes.raw, id[Len(id)], path[Len(id)])

\* a qualified id resolved through a module found across an Exclusive
\* connection, while its tail alone, held by that parent, is not visible
C16_Witness ==
    /\ pc = "searched"
    /\ last.op = "search_id"
    /\ scopes.raw[scopes.current + 1].connection.kind = "Exclusive"
    /\ \E id \in QualifiedIds :
          /\ Len(id) = 2
          /\ last.found[id].some
          /\ ~Holds(scopes.raw[scopes.current + 1].modules, id[1])
          /\ Holds(scopes.raw[scopes.raw[scopes.current + 1].connection.id + 1].variables, id[2])
          /\ ~last.found[<<id[2]>>].some

-----------------------------------------------------------------------------
(* Claims about the module builder.                                        *)

\* the directories of the tree, each as its path from the root and its entries
DirectoriesOf(entry) ==
    {[path |-> <<entry.name>>, entries |-> entry.entries]}
    \cup {[path |-> <<entry.name, entry.entries[i].name>>, entries |-> entry.entries[i].entries] :
             i \in {i \in 1..Len(entry.entries) : entry.entries[i].kind = "Directory"}}

\* the directory holds a file and a sub-directory of the stem
SameStem(entries, name) ==
    /\ \E i \in 1..Len(entries) : entries[i] = File(name)
    /\ \E i \in 1..Len(entries) : entries[i].kind = "Directory" /\ entries[i].name = name

ConflictsOf(errs, parent, name) == Len(SelectSeq(errs, LAMBDA e : e = ConflictingModuleNames(parent, name)))

\* C18: a directory holding foo.bell and foo/ gives exactly one
\* ConflictingModuleNames for foo in that directory, in whichever order the
\* two are enumerated and whatever is processed between them.
C18_SameStemIsOneConflict ==
    pc = "modules" =>
        \A directory \in DirectoriesOf(root_module), name \in EntryNames :
            SameStem(directory.entries, name) => ConflictsOf(errors, directory.path, name) = 1

\* C19: names are scoped per directory: a stem that only one child of a
\* directory bears gives no ConflictingModuleNames there, whatever the
\* children of the directories above, below and beside it are called.
C19_NamesScopedPerDirectory ==
    pc = "modules" =>
        /\ \A directory \in DirectoriesOf(root_module), name \in EntryNames \cup {"root"} :
              ~SameStem(directory.entries, name) => ConflictsOf(errors, directory.path, name) = 0
        /\ \A i \in 1..Len(errors) : \E directory \in DirectoriesOf(root_module) : errors[i].parent = directory.path

-----------------------------------------------------------------------------
(* Claims about the lowering.                                              *)

\* the expressions directly inside an AST expression
AstChildren(expression) ==
    CASE expression.kind \in {"Function", "Loop"} -> <<expression.body>>
      [] expression.kind = "Instance" -> [i \in 1..Len(expression.fields) |-> expression.fields[i].value]
      [] expression.kind = "Call" -> <<expression.function>> \o expression.parameters
      [] expression.kind = "Declaration" -> <<expression.value>>
      [] expression.kind = "Assignment" -> <<expression.to, expression.from>>
      [] expression.kind = "Access" -> <<expression.from>>
      [] expression.kind = "Block" -> expression.expressions \o (IF expression.tail.some THEN <<expression.tail.value>> ELSE <<>>)
      [] expression.kind = "Conditional" ->
            [i \in 1..(2 * Len(expression.branches)) |->
                IF i % 2 = 1 THEN expression.branches[(i + 1) \div 2].condition ELSE expression.branches[i \div 2].branch]
            \o (IF expression.tail.some THEN <<expression.tail.value>> ELSE <<>>)
      [] expression.kind \in {"Break", "Return"} -> <<expression.expression>>
      [] OTHER -> <<>>

\* an assignment whose left-hand side is neither an identifier nor a field access
IsInvalidAssignment(expression) == expression.kind = "Assignment" /\ expression.to.kind \notin {"Identifier", "Access"}

RECURSIVE InvalidAssignments(_)
RECURSIVE InvalidAssignmentsIn(_, _)

InvalidAssignmentsIn(expressions, i) ==
    IF i > Len(expressions) THEN 0 ELSE InvalidAssignments(expressions[i]) + InvalidAssignmentsIn(expressions, i + 1)

\* the number of invalid assignments in an AST expression, itself included
InvalidAssignments(expression) ==
    (IF IsInvalidAssignment(expression) THEN 1 ELSE 0) + InvalidAssignmentsIn(AstChildren(expression), 1)

InvalidAssigns(errs) == SelectSeq(errs, LAMBDA e : e.kind = "InvalidAssign")

\* C20: the lowering emits one InvalidAssign for each assignment of the AST
\* whose left-hand side is neither an identifier nor a field access, those
\* nested in the right-hand side of another invalid assignment included, and
\* puts an Error node in the place of such an assignment.
C20_EveryInvalidAssignIsReported ==
    pc = "hir" =>
        /\ Len(InvalidAssigns(errors)) = InvalidAssignmentsIn(root_module, 1)
        /\ \A expression \in Asts(MaxDepth) :
              (root_module = <<AstMain(expression)>> /\ IsInvalidAssignment(expression)) =>
                  last.hir = <<TopFunction(HirFunction("main", None, <<>>, EBlock(<<EError>>, EUnit)))>>

\* the HIR of an expression lowered on its own
HirOf(expression) == to_hir(LoweringNew, expression).hir

RECURSIVE Ternary(_, _, _)
\* Conditional{c_i, b_i, Conditional{c_i+1, b_i+1, ... F}} over the branches from branch i on
Ternary(branches, i, F) ==
    IF i > Len(branches) THEN F
    ELSE EConditional(HirOf(branches[i].condition), HirOf(branches[i].branch), Ternary(branches, i + 1, F))

\* the body of main holds the one statement
MainOf(statement) == <<TopFunction(HirFunction("main", None, <<>>, EBlock(<<statement>>, EUnit)))>>

\* C21: a conditional of n >= 1 branches and an optional else lowers to the
\* right-nested ternary over its branches in their order, ending in the
\* lowered else or, without an else, in an empty block with a Unit tail.
C21_ConditionalIsRightNested ==
    \A conditional \in AstConditionals :
        (pc = "hir" /\ root_module = <<AstMain(conditional)>>) =>
            /\ errors = <<>>
            /\ last.hir = MainOf(Ternary(conditional.branches, 1,
                                         IF conditional.tail.some THEN HirOf(conditional.tail.value) ELSE EBlock(<<>>, EUnit)))

\* a conditional of three branches without an else has been lowered
C21_Witness ==
    /\ pc = "hir"
    /\ \E conditional \in AstConditionals :
          /\ root_module = <<AstMain(conditional)>>
          /\ Len(conditional.branches) = MaxBranches
          /\ ~conditional.tail.some
          /\ last.hir[1].function.body.expressions[1].failure.failure.failure = EBlock(<<>>, EUnit)

-----------------------------------------------------------------------------
(* Claims about the lexer.                                                 *)

RECURSIVE LongestMatch(_, _, _)
\* the tokens of a text of operator characters when each token is the
\* longest operator that starts at its position
LongestMatch(text, i, tokens) ==
    IF i > Len(text) THEN Some(Append(tokens, EndOfFile))
    ELSE Then(ChoiceAt(SymbolsLongestFirst, text, i),
              LAMBDA found : IF found.some THEN LongestMatch(text, found.value.next, Append(tokens, found.value.token)) ELSE None)

\* the operators of two characters
TwoCharacterOperators == {Symbols[k] : k \in {k \in 1..Len(Symbols) : Len(Symbols[k].pattern) = 2}}

\* C22: operators are tokenized by longest match: each two-character
\* operator is one token, never its one-character prefix and another token.
C22_OperatorsByLongestMatch ==
    pc = "tokens" =>
        /\ \A symbol \in TwoCharacterOperators :
              root_module = symbol.pattern => last.tokens = <<[kind |-> symbol.token], EndOfFile>>
        /\ (root_module \in SeqsUpTo(OperatorCharacters, MaxText) /\ LongestMatch(root_module, 1, <<>>).some) =>
              last.tokens = LongestMatch(root_module, 1, <<>>).value

\* a literal of the i32 range with its value
InRange(digits, value) == [text |-> Literal(digits), value |-> value]

\* literals of the range 0..=2147483647, its ends among them
InRangeLiterals ==
    {InRange(<<0>>, 0), InRange(<<7>>, 7), InRange(<<4, 2>>, 42),
     InRange(<<2, 1, 4, 7, 4, 8, 3, 6, 4, 6>>, MaxI32 - 1), InRange(<<2, 1, 4, 7, 4, 8, 3, 6, 4, 7>>, MaxI32)}

\* literals above the range, 2147483648 the least of them
OutOfRangeLiterals ==
    {Literal(<<2, 1, 4, 7, 4, 8, 3, 6, 4, 8>>), Literal(<<4, 2, 9, 4, 9, 6, 7, 2, 9, 6>>),
     Literal(<<9, 9, 9, 9, 9, 9, 9, 9, 9, 9, 9>>)}

\* C24: a decimal literal above the i32 range does not abort the lexer: lex
\* returns and reports the literal; every literal of the range gives the
\* Int token of its value.
C24_OverflowingLiteralIsDiagnosed ==
    pc = "tokens" =>
        /\ \A literal \in InRangeLiterals :
              root_module = literal.text =>
                  /\ status = "ok"
                  /\ errors = <<>>
                  /\ last.tokens = <<[kind |-> "Int", value |-> literal.value], EndOfFile>>
        /\ \A literal \in OutOfRangeLiterals :
              (root_module = literal \/ root_module = <<"x">> \o literal \o <<";">>) =>
                  /\ status = "ok"
                  /\ errors # <<>>

RECURSIVE Markers(_, _, _)
\* the block comment read as a sequence of markers of two characters that
\* do not overlap, from position i at the depth: the position after the
\* `*/` that brings the depth to zero, or None when the text ends before it
Markers(text, i, depth) ==
    IF i > Len(text) THEN None
    ELSE IF StartsWith(text, i, Closing) THEN IF depth = 1 THEN Some(i + 2) ELSE Markers(text, i + 2, depth - 1)
    ELSE IF StartsWith(text, i, Opening) THEN Markers(text, i + 2, depth + 1)
    ELSE Markers(text, i + 1, depth)

\* C23: the block-comment scanner counts the depth over markers that do not
\* overlap and ends the comment at the `*/` that brings the depth to zero: a
\* well-nested comment gives no token and no error, and the lexing goes on
\* after it; a text that ends inside a comment gives exactly one
\* UnterminatedBlockComment.
C23_BlockCommentsNest ==
    (pc = "tokens" /\ StartsWith(root_module, 1, Opening)) =>
        IF Markers(root_module, 3, 1).some
        THEN /\ Markers(root_module, 3, 1).value = Len(root_module) + 1 => (errors = <<>> /\ last.tokens = <<>>)
             /\ tokenize(SubSeq(root_module, Markers(root_module, 3, 1).value, Len(root_module))).ok =>
                   (errors = <<>> /\ last.tokens = Tokens(root_module, Markers(root_module, 3, 1).value, <<>>))
        ELSE errors = <<"UnterminatedBlockComment">>

-----------------------------------------------------------------------------
(* Further claims about the checker.                                       *)

\* C25: after the unify calls the checker issues the Link relation is
\* acyclic, no slot reaching itself over links, so that remove_ref and
\* collect_trace terminate; so too for `f = f` in the body of the function f.
C25_LinksStayAcyclic ==
    /\ status # "overflow"
    /\ \A t \in TypeIds(engine) : ~LinksTo(engine, t, t)

\* C26: the i-th scope the checker enters is the scope the gather pass
\* created for the same construct, whatever the expressions hold: calls with
\* blocks in the callee and the arguments, field assignments with blocks in
\* the target and the value, instances with repeated field names.
C26_CheckerEntersGatheredScopes ==
    \A i \in 1..Len(scopes.entered) : i <= Len(scopes.created) /\ scopes.entered[i] = scopes.created[i]

RECURSIVE CountModules(_)
RECURSIVE CountModulesFrom(_, _)
\* the number of modules of the tree
CountModules(module) == 1 + CountModulesFrom(module.modules, 1)

CountModulesFrom(modules, i) == IF i > Len(modules) THEN 0 ELSE CountModules(modules[i]) + CountModulesFrom(modules, i + 1)

\* the name a top-level function or structure declares
DeclaredName(top_level) == IF top_level.kind = "Function" THEN top_level.function.name ELSE top_level.structure.name

\* the top-level functions and structures of a program
Declarations(program) == SelectSeq(program, LAMBDA top_level : top_level.kind \in {"Function", "Structure"})

\* the scopes gather created for modules
ModuleScopes(raw) == {scope \in ScopeIds(raw) : raw[scope + 1].connection.kind = "Exclusive"}

\* C27: the gather pass completes, and after it there is exactly one module
\* scope per module and the module scope of a program holds exactly one
\* binding, a fresh Unknown slot that is not shadowable, per top-level
\* function or structure: each module scope is populated exactly once.
C27_ModuleScopesPopulatedOnce ==
    /\ pc \in {"insert", "gather"} => status = "ok"
    /\ (pc = "check" /\ last.op = "gather") =>
          /\ Cardinality(ModuleScopes(scopes.raw)) = CountModules(root_module)
          /\ root_module.kind = "Program" =>
                Then(scopes.raw[search_module(scopes.raw, root_module.name, 0).value + 1].variables,
                     LAMBDA variables :
                         /\ Len(variables) = Len(Declarations(root_module.program))
                         /\ \A i \in 1..Len(variables) :
                               /\ variables[i].name = DeclaredName(Declarations(root_module.program)[i])
                               /\ ~variables[i].variable.shadowable
                               /\ Get(engine, variables[i].variable.type_id).kind = "Unknown"
                               /\ \A j \in 1..Len(variables) : i # j => variables[i].variable.type_id # variables[j].variable.type_id)

\* C28: every function or structure definition the checker visits has a
\* binding that gather pre-declared and that the lookup from the current
\* scope finds when unify_in_place runs: its unwrap never fails, so a check
\* that stops does so at an enter_scope or an exit_scope.
C28_DefinitionsArePredeclared ==
    (last.op = "check" /\ status = "panic") =>
        \/ scopes.scope_inc + 1 >= Len(scopes.raw)
        \/ scopes.raw[scopes.current + 1].connection.kind = "None"

\* the mismatches recorded for an assignment
AssignMismatches(eng) == SelectSeq(eng.mismatches, LAMBDA mismatch : mismatch.reason = "Assign")

\* C29: one assignment `x = rhs` to a resolved variable whose type conflicts
\* with that of rhs records exactly one Mismatch, of reason Assign, and so
\* gives exactly one TypeMismatch.
C29_AssignmentMismatchRecordedOnce ==
    \A value, rhs \in PrimitiveLiterals :
        (value # rhs /\ root_module = Program("m", Reassign(value, rhs))) =>
            /\ pc \in AfterCheckModule => (Len(engine.mismatches) = 1 /\ Len(AssignMismatches(engine)) = 1)
            /\ pc = "done" => Len(TypeMismatches(errors)) = 1

-----------------------------------------------------------------------------
(* Further claims about the engine.                                        *)

\* the fields in another iteration order
Permuted(fields, order) == [i \in 1..Len(fields) |-> fields[order[i]]]

\* C30: unifying two Structure slots does not depend on the order in which
\* the fields of the left structure are iterated: every order leaves the
\* same links and the same mismatches, also when a field is missing on the
\* right and others are Unknown.
C30_FieldOrderIsIrrelevant ==
    pc = "unified" =>
        \A order \in Orders(1..Len(Get(last.pre, last.a).fields)) :
            Then(unify(SetInfo(last.pre, last.a, Structure(Permuted(Get(last.pre, last.a).fields, order))), last.a, last.b, last.reason),
                 LAMBDA other :
                     /\ other.mismatches = engine.mismatches
                     /\ \A t \in TypeIds(engine) \ {last.a} : Get(other, t) = Get(engine, t))

====
